---- MODULE Spec2Model ----
(***************************************************************************)
(* Office template installer / uninstaller ("Python script" package).     *)
(*                                                                         *)
(* Six specifications share this module:                                   *)
(*   SpecClassify  the destination classifier, a pure function of a name  *)
(*   SpecAuthor    the author check of one path (file, folder or nothing) *)
(*   SpecMru       one registry "File MRU" key under MRU writes and       *)
(*   SpecMruAny    exclusion rewrites (from a well-formed key / from any  *)
(*                 pre-existing content)                                   *)
(*   Spec          install and uninstall runs over the payload folder,    *)
(*                 the destination folders, their Backups and the MRU     *)
(*   SpecKeys      the MRU operations over all the key paths of one       *)
(*                 application, some of which refuse                      *)
(*                                                                         *)
(* Strings.  A file name is the record [stem, ext] that pathlib splits it *)
(* into (ext is Path.suffix, with its dot); a path is [dir, name].        *)
(* str.lower() is the table Lower over the spellings the model uses.      *)
(***************************************************************************)
EXTENDS Integers, Sequences, FiniteSets, TLC

None == "None"

\* str.lower() on the spellings that occur in the model.
Lower(s) ==
    CASE s = ".DOTX" -> ".dotx"
      [] s = ".Dotm" -> ".dotm"
      [] s = ".POTX" -> ".potx"
      [] s = ".XLTM" -> ".xltm"
      [] s = ".THMX" -> ".thmx"
      [] s = ".TXT" -> ".txt"
      [] s = "Normal" -> "normal"
      [] s = "NormalEmail" -> "normalemail"
      [] s = "Blank" -> "blank"
      [] s = "Book" -> "book"
      [] s = "Sheet" -> "sheet"
      [] s = "Custom" -> "custom"
      [] s = "CUSTOM" -> "custom"
      [] s = "Deck" -> "deck"
      [] s = "Report" -> "report"
      [] s = "Budget" -> "budget"
      [] s = "Brand" -> "brand"
      [] s = "Other" -> "other"
      [] s = "Roaming" -> "roaming"
      [] s = "XLSTART" -> "xlstart"
      [] s = "CustomWord" -> "customword"
      [] s = "CUSTOMWORD" -> "customword"
      [] s = "CustomPpt" -> "customppt"
      [] s = "CustomExcel" -> "customexcel"
      [] s = "CustomAlt" -> "customalt"
      [] s = "Themes" -> "themes"
      [] s = "Docs" -> "docs"
      [] s = "WWW.GRADA.CC" -> "www.grada.cc"
      [] s = "Www.Gradaz.Com" -> "www.gradaz.com"
      [] s = "Evil.com" -> "evil.com"
      [] OTHER -> s

Name(stem, ext) == [stem |-> stem, ext |-> ext]

\* Path(name).suffix
Suffix(name) == name.ext

\* name.startswith(prefix + "."), for stems that hold no dot
StartsWithStem(name, stems) == name.stem \in stems /\ name.ext # ""

SUPPORTED_TEMPLATE_EXTENSIONS ==
    {".dotx", ".dotm", ".potx", ".potm", ".xltx", ".xltm", ".thmx"}

BASE_TEMPLATE_NAMES ==
    { Name("Normal", ".dotx"), Name("Normal", ".dotm"),
      Name("NormalEmail", ".dotx"), Name("NormalEmail", ".dotm"),
      Name("Blank", ".potx"), Name("Blank", ".potm"),
      Name("Book", ".xltx"), Name("Book", ".xltm"),
      Name("Sheet", ".xltx"), Name("Sheet", ".xltm") }

(***************************************************************************)
(* Path resolution.  resolve_template_paths returns the module constants  *)
(* that common.py computes at import from the registry and environment:   *)
(* either every folder is a directory of its own, or the PowerPoint and   *)
(* Excel custom folders fall back to the Word custom folder.              *)
(***************************************************************************)
PathsDistinct ==
    [ THEME |-> "Themes", CUSTOM_WORD |-> "CustomWord", CUSTOM_PPT |-> "CustomPpt",
      CUSTOM_EXCEL |-> "CustomExcel", CUSTOM_ADDITIONAL |-> "CustomAlt",
      ROAMING |-> "Roaming", EXCEL |-> "XLSTART" ]

PathsShared ==
    [ PathsDistinct EXCEPT !.CUSTOM_PPT = "CustomWord", !.CUSTOM_EXCEL = "CustomWord" ]

PathConfigs == {PathsDistinct, PathsShared}

default_destinations(p) ==
    [ WORD |-> p.ROAMING, POWERPOINT |-> p.ROAMING, EXCEL |-> p.EXCEL,
      CUSTOM |-> p.CUSTOM_WORD, CUSTOM_ALT |-> p.CUSTOM_ADDITIONAL,
      WORD_CUSTOM |-> p.CUSTOM_WORD, POWERPOINT_CUSTOM |-> p.CUSTOM_PPT,
      EXCEL_CUSTOM |-> p.CUSTOM_EXCEL, ROAMING |-> p.ROAMING, THEMES |-> p.THEME ]

(***************************************************************************)
(* Destination classifier.                                                 *)
(***************************************************************************)
\* A slip the classifier could make: the extension is compared as spelled.
resolve_destination_no_lower(name, p) ==
    LET extension == Suffix(name) IN
    IF name \in BASE_TEMPLATE_NAMES /\ StartsWithStem(name, {"Normal", "NormalEmail", "Blank"})
    THEN p.ROAMING
    ELSE IF name \in BASE_TEMPLATE_NAMES /\ StartsWithStem(name, {"Book", "Sheet"})
    THEN p.EXCEL
    ELSE IF extension \in {".dotx", ".dotm"} THEN p.CUSTOM_WORD
    ELSE IF extension \in {".potx", ".potm"} THEN p.CUSTOM_PPT
    ELSE IF extension \in {".xltx", ".xltm"} THEN p.CUSTOM_EXCEL
    ELSE IF extension = ".thmx" THEN p.THEME
    ELSE None

resolve_destination_for_name(name, p) ==
    LET extension == Lower(Suffix(name)) IN
    IF name \in BASE_TEMPLATE_NAMES /\ StartsWithStem(name, {"Normal", "NormalEmail", "Blank"})
    THEN p.ROAMING
    ELSE IF name \in BASE_TEMPLATE_NAMES /\ StartsWithStem(name, {"Book", "Sheet"})
    THEN p.EXCEL
    ELSE IF extension \in {".dotx", ".dotm"} THEN p.CUSTOM_WORD
    ELSE IF extension \in {".potx", ".potm"} THEN p.CUSTOM_PPT
    ELSE IF extension \in {".xltx", ".xltm"} THEN p.CUSTOM_EXCEL
    ELSE IF extension = ".thmx" THEN p.THEME
    ELSE None

\* office_files._destination_for_file: the caller passes path.suffix.lower()
destination_for_file(name, extension, p) ==
    IF name \in BASE_TEMPLATE_NAMES /\ StartsWithStem(name, {"Normal", "NormalEmail", "Blank"})
    THEN p.ROAMING
    ELSE IF name \in BASE_TEMPLATE_NAMES /\ StartsWithStem(name, {"Book", "Sheet"})
    THEN p.EXCEL
    ELSE IF extension \in {".dotx", ".dotm"} THEN p.CUSTOM_WORD
    ELSE IF extension \in {".potx", ".potm"} THEN p.CUSTOM_PPT
    ELSE IF extension \in {".xltx", ".xltm"} THEN p.CUSTOM_EXCEL
    ELSE IF extension = ".thmx" THEN p.THEME
    ELSE None

\* common._destination_for_extension
destination_for_extension(extension, destinations) ==
    IF extension \in {".dotx", ".dotm"} THEN destinations.WORD
    ELSE IF extension \in {".potx", ".potm"} THEN destinations.POWERPOINT
    ELSE IF extension \in {".xltx", ".xltm"} THEN destinations.EXCEL
    ELSE IF extension = ".thmx" THEN destinations.THEMES
    ELSE None

(***************************************************************************)
(* MruStore.  A registry value "Item N" holds a string; the model keeps   *)
(* it as the list raw.split("*") of texts.  A text is a path-shaped       *)
(* record; BlankText is the empty string (Python's None and "" are both   *)
(* falsy wherever the code tests them, so one value stands for both).     *)
(* A key is [items, meta]: items lists the "Item N" values in the order   *)
(* winreg.EnumValue yields them, meta maps N to "Item Metadata N".        *)
(***************************************************************************)
Path(dir, name) == [dir |-> dir, name |-> name]

BlankText == Path("", Name("", ""))

SpaceText == Path(" ", Name("", ""))

\* str.strip()
Strip(t) == IF t = SpaceText THEN BlankText ELSE t

\* str.lower() of a whole path string
LowerText(t) ==
    Path(Lower(t.dir), Name(Lower(t.name.stem), Lower(t.name.ext)))

\* MRU_VALUE_PREFIX without its trailing "*"
MRU_VALUE_PREFIX == Path("[F00000000][T01ED6D7E58D00000][O00000000]", Name("", ""))

MruCapacity == 10

EmptyKey == [items |-> <<>>, meta |-> <<>>]

Min(a, b) == IF a < b THEN a ELSE b

\* common._extract_mru_path
extract_mru_path(raw_value) ==
    IF raw_value = <<BlankText>> THEN BlankText
    ELSE Strip(raw_value[Len(raw_value)])

\* The "Item N" numbers a key holds.
ItemNums(key) == { key.items[i].num : i \in DOMAIN key.items }

\* winreg.SetValueEx(key, "Item n", ...): replace in place, or append
SetItem(items, n, value) ==
    IF \E i \in DOMAIN items : items[i].num = n
    THEN [ i \in DOMAIN items |->
             IF items[i].num = n THEN [num |-> n, value |-> value] ELSE items[i] ]
    ELSE Append(items, [num |-> n, value |-> value])

\* winreg.SetValueEx(key, "Item Metadata n", ...)
SetMeta(meta, n, value) ==
    [ i \in DOMAIN meta \cup {n} |-> IF i = n THEN value ELSE meta[i] ]

Metadata(entry, basename) == [id |-> entry, nm |-> basename, du |-> entry]

RECURSIVE WriteEntries(_, _, _, _)
\* the "Reescribir" loop of _write_mru_entry, from index idx on
WriteEntries(key, new_entries, basename, idx) ==
    IF idx > Len(new_entries) THEN key
    ELSE WriteEntries(
           [ items |-> SetItem(key.items, idx, <<MRU_VALUE_PREFIX, new_entries[idx]>>),
             meta |-> SetMeta(key.meta, idx, Metadata(new_entries[idx], basename)) ],
           new_entries, basename, idx + 1)

\* A slip: the file is put after the paths read, not before them.
NewEntries_appended(key, full_path) ==
    LET extracted == [ i \in DOMAIN key.items |-> extract_mru_path(key.items[i].value) ]
        existing_items == SelectSeq(extracted, LAMBDA v : v # BlankText)
        filtered == SelectSeq(existing_items, LAMBDA v : LowerText(full_path) # LowerText(v))
        new_entries == filtered \o <<full_path>>
    IN  SubSeq(new_entries, 1, Min(MruCapacity, Len(new_entries)))

\* The list _write_mru_entry builds: the file first, then the other paths read.
NewEntries(key, full_path) ==
    LET extracted == [ i \in DOMAIN key.items |-> extract_mru_path(key.items[i].value) ]
        existing_items == SelectSeq(extracted, LAMBDA v : v # BlankText)
        filtered == SelectSeq(existing_items, LAMBDA v : LowerText(full_path) # LowerText(v))
        new_entries == <<full_path>> \o filtered
    IN  SubSeq(new_entries, 1, Min(MruCapacity, Len(new_entries)))

\* A slip: the list is not cut to its capacity.
write_mru_entry_no_limit(key, file_path) ==
    LET extracted == [ i \in DOMAIN key.items |-> extract_mru_path(key.items[i].value) ]
        existing_items == SelectSeq(extracted, LAMBDA v : v # BlankText)
        filtered == SelectSeq(existing_items,
                              LAMBDA v : LowerText(Strip(file_path)) # LowerText(v))
    IN  WriteEntries(key, <<Strip(file_path)>> \o filtered, Strip(file_path).name.stem, 1)

\* common._write_mru_entry, once the key is open
write_mru_entry(key, file_path) ==
    LET full_path == Strip(file_path)
        basename == full_path.name.stem
    IN  WriteEntries(key, NewEntries(key, full_path), basename, 1)

RECURSIVE SortByNum(_)
\* sorted(items, key=lambda x: x[0]): stable, by item number
SortByNum(s) ==
    IF s = <<>> THEN <<>>
    ELSE LET m == CHOOSE i \in DOMAIN s :
                    \A j \in DOMAIN s :
                        s[i].num < s[j].num \/ (s[i].num = s[j].num /\ i <= j)
         IN  <<s[m]>> \o SortByNum([ k \in 1..(Len(s) - 1) |-> IF k < m THEN s[k] ELSE s[k + 1] ])

\* A slip: the targets are compared with the paths as they are spelled.
rewrite_mru_excluding_case_sensitive(key, targets) ==
    LET sorted == SortByNum(key.items)
        filtered == SelectSeq(sorted,
                       LAMBDA it : ~ ( extract_mru_path(it.value) # BlankText
                                       /\ extract_mru_path(it.value) \in targets ))
        withMeta == { i \in DOMAIN filtered : filtered[i].num \in DOMAIN key.meta }
    IN  [ items |-> [ i \in DOMAIN filtered |-> [num |-> i, value |-> filtered[i].value] ],
          meta |-> [ i \in withMeta |-> key.meta[filtered[i].num] ] ]

\* A slip: every Item value is deleted and none is written back.
rewrite_mru_excluding_write_nothing(key, targets) == EmptyKey

\* common._rewrite_mru_excluding, once the key is open: every Item* value is
\* deleted, then the survivors are written back numbered from 1.
rewrite_mru_excluding(key, targets) ==
    LET target_lowers == { LowerText(t) : t \in targets }
        sorted == SortByNum(key.items)
        filtered == SelectSeq(sorted,
                       LAMBDA it : ~ ( extract_mru_path(it.value) # BlankText
                                       /\ LowerText(extract_mru_path(it.value)) \in target_lowers ))
        withMeta == { i \in DOMAIN filtered : filtered[i].num \in DOMAIN key.meta }
    IN  [ items |-> [ i \in DOMAIN filtered |-> [num |-> i, value |-> filtered[i].value] ],
          meta |-> [ i \in withMeta |-> key.meta[filtered[i].num] ] ]

(***************************************************************************)
(* Author validation.  A template file is a ZIP container; the model      *)
(* keeps of it what _extract_author reads: whether the archive opens,     *)
(* whether docProps/core.xml is there and parses, and the text of its     *)
(* creator element ("" when the element is absent or empty).              *)
(***************************************************************************)
Archive(zip, core, creator) == [zip |-> zip, core |-> core, creator |-> creator]

\* str.strip() on author strings
StripStr(s) ==
    CASE s = " " -> ""
      [] s = " www.grada.cc " -> "www.grada.cc"
      [] OTHER -> s

DEFAULT_ALLOWED_TEMPLATE_AUTHORS == <<"www.grada.cc", "www.gradaz.com">>

\* common._normalize_allowed_authors
normalize_allowed_authors(authors) ==
    SelectSeq([ i \in DOMAIN authors |-> StripStr(authors[i]) ], LAMBDA a : a # "")

\* common._extract_author on an existing file: [author, error]; error is
\* "" for Python's None, otherwise the tag of the message returned.
extract_author(archive) ==
    IF ~ archive.zip THEN [author |-> "", error |-> "ERROR unreadable"]
    ELSE IF ~ archive.core THEN [author |-> "", error |-> "WARN core.xml missing"]
    ELSE IF archive.creator # "" THEN [author |-> StripStr(archive.creator), error |-> ""]
    ELSE [author |-> "", error |-> "WARN no author defined"]

AuthorCheckResult(allowed, authors, error) ==
    [allowed |-> allowed, authors |-> authors, error |-> error]

\* A slip: theme files go through the author gate like any template.
check_template_author_themes_gated(name, archive, allowed_authors, validation_enabled) ==
    LET allowed == normalize_allowed_authors(
                       IF allowed_authors = <<>> THEN DEFAULT_ALLOWED_TEMPLATE_AUTHORS
                       ELSE allowed_authors)
        found == extract_author(archive)
    IN  IF ~ validation_enabled THEN AuthorCheckResult(TRUE, <<>>, FALSE)
        ELSE IF found.error # "" THEN AuthorCheckResult(FALSE, <<>>, TRUE)
        ELSE IF found.author = "" THEN AuthorCheckResult(FALSE, <<>>, FALSE)
        ELSE AuthorCheckResult(
               \E i \in DOMAIN allowed : Lower(found.author) = Lower(allowed[i]),
               <<found.author>>, FALSE)

\* A slip: the author is compared with the allowlist as spelled.
check_template_author_case_sensitive(name, archive, allowed_authors, validation_enabled) ==
    LET allowed == normalize_allowed_authors(
                       IF allowed_authors = <<>> THEN DEFAULT_ALLOWED_TEMPLATE_AUTHORS
                       ELSE allowed_authors)
        found == extract_author(archive)
    IN  IF ~ validation_enabled THEN AuthorCheckResult(TRUE, <<>>, FALSE)
        ELSE IF Lower(Suffix(name)) = ".thmx" THEN AuthorCheckResult(TRUE, <<>>, FALSE)
        ELSE IF found.error # "" THEN AuthorCheckResult(FALSE, <<>>, TRUE)
        ELSE IF found.author = "" THEN AuthorCheckResult(FALSE, <<>>, FALSE)
        ELSE AuthorCheckResult(
               \E i \in DOMAIN allowed : found.author = allowed[i],
               <<found.author>>, FALSE)

\* common.check_template_author on an existing single file
check_template_author(name, archive, allowed_authors, validation_enabled) ==
    LET allowed == normalize_allowed_authors(
                       IF allowed_authors = <<>> THEN DEFAULT_ALLOWED_TEMPLATE_AUTHORS
                       ELSE allowed_authors)
        found == extract_author(archive)
    IN  IF ~ validation_enabled THEN AuthorCheckResult(TRUE, <<>>, FALSE)
        ELSE IF Lower(Suffix(name)) = ".thmx" THEN AuthorCheckResult(TRUE, <<>>, FALSE)
        ELSE IF found.error # "" THEN AuthorCheckResult(FALSE, <<>>, TRUE)
        ELSE IF found.author = "" THEN AuthorCheckResult(FALSE, <<>>, FALSE)
        ELSE AuthorCheckResult(
               \E i \in DOMAIN allowed : Lower(found.author) = Lower(allowed[i]),
               <<found.author>>, FALSE)

\* AuthorCheckResult.as_cli_output
as_cli_output(result) == IF result.allowed /\ ~ result.error THEN "TRUE" ELSE "FALSE"

RECURSIVE directory_authors(_, _)
\* The loop of check_template_author over a folder whose template files
\* iter_template_files yields in the order `order`: authors_found.
directory_authors(folder, order) ==
    IF Len(order) = 0 THEN <<>>
    ELSE LET file == order[1]
             found == extract_author(folder[file])
             rest == directory_authors(folder, SubSeq(order, 2, Len(order)))
         IN  IF Lower(Suffix(file)) = ".thmx" THEN rest
             ELSE IF found.author # "" THEN <<found.author>> \o rest
             ELSE rest

\* A path handed to check_template_author: nothing there, a folder, or a file.
Target(kind, name, archive, folder) ==
    [kind |-> kind, name |-> name, archive |-> archive, folder |-> folder]

\* A slip: a folder is allowed only when every author found in it is allowed.
check_template_author_path_gated(target, order, allowed_authors, validation_enabled) ==
    IF target.kind = "missing" THEN AuthorCheckResult(FALSE, <<>>, TRUE)
    ELSE IF target.kind = "dir"
    THEN AuthorCheckResult(
           \A n \in DOMAIN target.folder :
               check_template_author(n, target.folder[n], allowed_authors, TRUE).allowed,
           directory_authors(target.folder, order), FALSE)
    ELSE check_template_author(target.name, target.archive, allowed_authors, validation_enabled)

\* common.check_template_author(target): the path may be missing or a folder
check_template_author_path(target, order, allowed_authors, validation_enabled) ==
    IF target.kind = "missing" THEN AuthorCheckResult(FALSE, <<>>, TRUE)
    ELSE IF target.kind = "dir"
    THEN AuthorCheckResult(TRUE, directory_authors(target.folder, order), FALSE)
    ELSE check_template_author(target.name, target.archive, allowed_authors, validation_enabled)

(***************************************************************************)
(* Files.  A folder tree is a function from the paths that exist to the   *)
(* content of each file (the archive it holds); a Backups folder maps    *)
(* [dir, stamp, name], the file "<dir>/Backups/<stamp> - <name>".         *)
(***************************************************************************)
NoFiles == [ q \in {} |-> Archive(FALSE, FALSE, "") ]

Exists(f, p) == p \in DOMAIN f

\* shutil.copy2 onto p
Put(f, p, c) == [ q \in DOMAIN f \cup {p} |-> IF q = p THEN c ELSE f[q] ]

\* Path.unlink
Remove(f, p) == [ q \in DOMAIN f \ {p} |-> f[q] ]

BackupPath(target, stamp) == [dir |-> target.dir, stamp |-> stamp, name |-> target.name]

\* What the file system refuses, by folder: no_dir are the folders mkdir
\* cannot make (the path is taken by a file, or its parent denies it),
\* no_backups the folders in which no "Backups" folder can be made,
\* backup_full the folders whose "Backups" folder takes no new file.
Faults(no_dir, no_backups, backup_full) ==
    [no_dir |-> no_dir, no_backups |-> no_backups, backup_full |-> backup_full]

NoFaults == Faults({}, {}, {})

\* ensure_directory(path) raises OSError
ensure_directory_raises(dir, faults) == dir \in faults.no_dir

\* common.backup_existing(target_file) raises: ensure_directory(backup_dir)
\* is outside its try
backup_existing_raises(f, target, faults) ==
    Exists(f, target) /\ target.dir \in faults.no_backups

\* A slip: a backup whose name is taken gets a name of its own.
backup_existing_fresh_name(f, b, target, minute, faults) ==
    IF ~ Exists(f, target) THEN b
    ELSE IF target.dir \in faults.backup_full THEN b
    ELSE IF BackupPath(target, minute) \in DOMAIN b
    THEN Put(b, BackupPath(target, minute + 100), f[target])
    ELSE Put(b, BackupPath(target, minute), f[target])

\* A slip: the backup's name carries no time stamp.
backup_existing_no_stamp(f, b, target, minute, faults) ==
    IF ~ Exists(f, target) THEN b
    ELSE IF target.dir \in faults.backup_full THEN b
    ELSE Put(b, BackupPath(target, 0), f[target])

\* common.backup_existing(target_file) at minute `minute`, when it returns:
\* an OSError of shutil.copy2 is logged and nothing is written
backup_existing(f, b, target, minute, faults) ==
    IF ~ Exists(f, target) THEN b
    ELSE IF target.dir \in faults.backup_full THEN b
    ELSE Put(b, BackupPath(target, minute), f[target])

\* common.iter_template_files(base_dir): the names the seven globs yield
\* (the glob matches ignoring case, as on Windows)
TemplateFiles(dir) ==
    { n \in DOMAIN dir : Lower(Suffix(n)) \in SUPPORTED_TEMPLATE_EXTENSIONS }

\* The orders iter_template_files may yield the names in: one glob after
\* the other (the set of extensions has no fixed order), each glob in
\* directory order.
IterOrders(names) ==
    { s \in [1..Cardinality(names) -> names] :
        /\ \A i, j \in DOMAIN s : i # j => s[i] # s[j]
        /\ \A i, j, k \in DOMAIN s :
             (i < j /\ j < k /\ Lower(Suffix(s[i])) = Lower(Suffix(s[k])))
                => Lower(Suffix(s[j])) = Lower(Suffix(s[i])) }

(***************************************************************************)
(* MRU bookkeeping of a run.  The registry maps an application label to   *)
(* the "File MRU" keys _find_mru_paths discovers for it (CreateKeyEx      *)
(* makes a missing key, so a key that is absent is an empty key).         *)
(***************************************************************************)
Apps == {"WORD", "POWERPOINT", "EXCEL"}

\* common._should_update_mru
should_update_mru(path) ==
    /\ path.name \notin BASE_TEMPLATE_NAMES
    /\ Lower(Suffix(path.name)) # ".thmx"

\* A slip: the MRU write is attempted whether or not there is a registry.
update_mru_for_template_unguarded(reg, app_label, file_path, available) ==
    IF app_label \notin Apps THEN reg
    ELSE [ reg EXCEPT ![app_label] =
             [ k \in DOMAIN reg[app_label] |-> write_mru_entry(reg[app_label][k], file_path) ] ]

\* common.update_mru_for_template: every discovered key gets the write.
\* `available` is false when there is no registry to write to: winreg is
\* None (not Windows), or CreateKeyEx raises OSError for the keys.
update_mru_for_template(reg, app_label, file_path, available) ==
    IF ~ available \/ app_label \notin Apps THEN reg
    ELSE [ reg EXCEPT ![app_label] =
             [ k \in DOMAIN reg[app_label] |-> write_mru_entry(reg[app_label][k], file_path) ] ]

\* A slip: base templates are registered in the MRU like any other template.
update_mru_if_applicable_with_base(reg, app_label, destination, available) ==
    IF Lower(Suffix(destination.name)) \in {".dotx", ".dotm", ".potx", ".potm", ".xltx", ".xltm"}
    THEN update_mru_for_template(reg, app_label, destination, available)
    ELSE reg

\* common._update_mru_if_applicable
update_mru_if_applicable(reg, app_label, destination, available) ==
    IF ~ should_update_mru(destination) THEN reg
    ELSE IF Lower(Suffix(destination.name)) \in {".dotx", ".dotm", ".potx", ".potm", ".xltx", ".xltm"}
    THEN update_mru_for_template(reg, app_label, destination, available)
    ELSE reg

\* common._update_mru_if_applicable_extension
update_mru_if_applicable_extension(reg, extension, destination, available) ==
    IF ~ should_update_mru(destination) THEN reg
    ELSE IF extension \in {".dotx", ".dotm"}
    THEN update_mru_for_template(reg, "WORD", destination, available)
    ELSE IF extension \in {".potx", ".potm"}
    THEN update_mru_for_template(reg, "POWERPOINT", destination, available)
    ELSE IF extension \in {".xltx", ".xltm"}
    THEN update_mru_for_template(reg, "EXCEL", destination, available)
    ELSE reg

WordBaseNames ==
    << Name("Normal", ".dotx"), Name("Normal", ".dotm"),
       Name("NormalEmail", ".dotx"), Name("NormalEmail", ".dotm") >>

PowerPointBaseNames == << Name("Blank", ".potx"), Name("Blank", ".potm") >>

ExcelBaseNames ==
    << Name("Book", ".xltx"), Name("Book", ".xltm"),
       Name("Sheet", ".xltx"), Name("Sheet", ".xltm") >>

Range(s) == { s[i] : i \in DOMAIN s }

\* A slip: only the base templates are cleanup targets.
collect_mru_targets_base_only(dir, destinations) ==
    { Path(destinations.WORD, n) : n \in Range(WordBaseNames) }
    \cup { Path(destinations.POWERPOINT, n) : n \in Range(PowerPointBaseNames) }
    \cup { Path(destinations.EXCEL, n) : n \in Range(ExcelBaseNames) }

\* common._collect_mru_targets
collect_mru_targets(dir, destinations) ==
    LET base ==
            { Path(destinations.WORD, n) : n \in Range(WordBaseNames) }
            \cup { Path(destinations.POWERPOINT, n) : n \in Range(PowerPointBaseNames) }
            \cup { Path(destinations.EXCEL, n) : n \in Range(ExcelBaseNames) }
        custom == { n \in TemplateFiles(dir) :
                      n \notin BASE_TEMPLATE_NAMES /\ Lower(Suffix(n)) # ".thmx" }
        dest(n) ==
            LET ext == Lower(Suffix(n)) IN
            IF ext \in {".dotx", ".dotm"} THEN destinations.WORD_CUSTOM
            ELSE IF ext \in {".potx", ".potm"} THEN destinations.POWERPOINT_CUSTOM
            ELSE IF ext \in {".xltx", ".xltm"} THEN destinations.EXCEL_CUSTOM
            ELSE destination_for_extension(ext, destinations)
    IN  base \cup { Path(dest(n), n) : n \in { m \in custom : dest(m) # None } }

\* The grouping of clear_mru_entries_for_payload and of
\* _update_mru_if_applicable_extension: the application of an extension.
AppOfExtension(ext) ==
    IF ext \in {".dotx", ".dotm"} THEN "WORD"
    ELSE IF ext \in {".potx", ".potm"} THEN "POWERPOINT"
    ELSE IF ext \in {".xltx", ".xltm"} THEN "EXCEL"
    ELSE None

\* The grouping of clear_mru_entries_for_payload: the targets of one application.
GroupedTargets(targets, app_label) ==
    LET exts == CASE app_label = "WORD" -> {".dotx", ".dotm"}
                  [] app_label = "POWERPOINT" -> {".potx", ".potm"}
                  [] OTHER -> {".xltx", ".xltm"}
    IN  { t \in targets : Lower(Suffix(t.name)) \in exts }

\* common._clear_mru_for_app: every discovered key gets the rewrite
clear_mru_for_app(reg, app_label, target_paths) ==
    [ reg EXCEPT ![app_label] =
        [ k \in DOMAIN reg[app_label] |-> rewrite_mru_excluding(reg[app_label][k], target_paths) ] ]

\* common.clear_mru_entries_for_payload
clear_mru_entries_for_payload(reg, dir, destinations, available) ==
    LET targets == collect_mru_targets(dir, destinations)
        step(r, app_label) ==
            IF GroupedTargets(targets, app_label) = {} THEN r
            ELSE clear_mru_for_app(r, app_label, GroupedTargets(targets, app_label))
    IN  IF ~ available \/ targets = {} THEN reg
        ELSE step(step(step(reg, "WORD"), "POWERPOINT"), "EXCEL")

(***************************************************************************)
(* The loops over the MRU key paths of one application.  Under "Recent     *)
(* Templates" of a version lie its File MRU key and subkeys, among them    *)
(* the account containers (ADAL_..., LIVEID_...) with a File MRU of their  *)
(* own.  A key path is [version, container], container "" for the File MRU *)
(* of the version itself.  A key path can refuse: "open" when CreateKeyEx  *)
(* raises OSError, "set" when the key opens and SetValueEx raises it.      *)
(***************************************************************************)
OfficeVersions == << "16.0", "15.0", "14.0", "12.0" >>

\* str.upper() on the subkey names that occur in the model
UpperSub(sub) ==
    CASE sub = "adal_2" -> "ADAL_2"
      [] sub = "Other" -> "OTHER"
      [] OTHER -> sub

\* sub.upper().startswith("ADAL_") or sub.upper().startswith("LIVEID_")
IsAccountContainer(sub) == UpperSub(sub) \in {"ADAL_1", "ADAL_2", "LIVEID_3"}

RECURSIVE Dedupe(_)
\* "Deduplicar manteniendo orden"
Dedupe(s) ==
    IF s = <<>> THEN <<>>
    ELSE LET front == Dedupe(SubSeq(s, 1, Len(s) - 1))
         IN  IF s[Len(s)] \in Range(front) THEN front ELSE Append(front, s[Len(s)])

RECURSIVE FindRoots(_, _)
\* the loop over versions of _find_mru_paths, from version number v on
FindRoots(subkeys, v) ==
    IF v > Len(OfficeVersions) THEN <<>>
    ELSE LET version == OfficeVersions[v]
             accounts == SelectSeq(subkeys[version], IsAccountContainer)
         IN  [ i \in DOMAIN accounts |-> [version |-> version, container |-> accounts[i]] ]
             \o << [version |-> version, container |-> ""] >>
             \o FindRoots(subkeys, v + 1)

\* common._find_mru_paths; subkeys[version] is what EnumKey lists under
\* "Recent Templates" of the version (nothing, when OpenKey raises)
find_mru_paths(subkeys) == Dedupe(FindRoots(subkeys, 1))

\* _write_mru_entry on a key path that may refuse: OSError from CreateKeyEx
\* is caught inside and the function returns; OSError from the first
\* SetValueEx leaves the function with nothing written.
WriteOutcome(key, file_path, fault) ==
    IF fault = "none"
    THEN [key |-> write_mru_entry(key, file_path), raised |-> FALSE]
    ELSE [key |-> key, raised |-> fault = "set"]

\* _rewrite_mru_excluding on a key path that may refuse: with "set" every
\* Item value has been deleted when the first SetValueEx raises.
RewriteOutcome(key, targets, fault) ==
    IF fault = "none"
    THEN [key |-> rewrite_mru_excluding(key, targets), raised |-> FALSE]
    ELSE IF fault = "open" THEN [key |-> key, raised |-> FALSE]
    ELSE [key |-> EmptyKey, raised |-> rewrite_mru_excluding(key, targets) # EmptyKey]

RECURSIVE update_mru_loop_try_outside(_, _, _, _, _)
\* A slip: one try around the whole loop, so the first OSError ends it.
update_mru_loop_try_outside(keys, mru_paths, i, file_path, faults) ==
    IF i > Len(mru_paths) THEN keys
    ELSE LET out == WriteOutcome(keys[mru_paths[i]], file_path, faults[mru_paths[i]])
         IN  IF out.raised THEN [keys EXCEPT ![mru_paths[i]] = out.key]
             ELSE update_mru_loop_try_outside([keys EXCEPT ![mru_paths[i]] = out.key],
                                              mru_paths, i + 1, file_path, faults)

RECURSIVE update_mru_loop(_, _, _, _, _)
\* the loop of update_mru_for_template: try/except OSError around each call
update_mru_loop(keys, mru_paths, i, file_path, faults) ==
    IF i > Len(mru_paths) THEN keys
    ELSE update_mru_loop(
           [keys EXCEPT ![mru_paths[i]] =
              WriteOutcome(keys[mru_paths[i]], file_path, faults[mru_paths[i]]).key],
           mru_paths, i + 1, file_path, faults)

RECURSIVE clear_mru_loop(_, _, _, _, _)
\* the loop of _clear_mru_for_app: try/except OSError around each call
clear_mru_loop(keys, mru_paths, i, targets, faults) ==
    IF i > Len(mru_paths) THEN keys
    ELSE clear_mru_loop(
           [keys EXCEPT ![mru_paths[i]] =
              RewriteOutcome(keys[mru_paths[i]], targets, faults[mru_paths[i]]).key],
           mru_paths, i + 1, targets, faults)

(***************************************************************************)
(* Install and uninstall engines, as functions of the folders.  A path in *)
(* `locked` is a file another process holds open (Office, Outlook):       *)
(* copying onto it or unlinking it raises OSError.                        *)
(***************************************************************************)
\* base_targets of the installer's main: (app_label, filename, destination role)
base_targets ==
    << [app_label |-> "WORD", filename |-> Name("Normal", ".dotx"), role |-> "WORD"],
       [app_label |-> "WORD", filename |-> Name("Normal", ".dotm"), role |-> "WORD"],
       [app_label |-> "WORD", filename |-> Name("NormalEmail", ".dotx"), role |-> "WORD"],
       [app_label |-> "WORD", filename |-> Name("NormalEmail", ".dotm"), role |-> "WORD"],
       [app_label |-> "POWERPOINT", filename |-> Name("Blank", ".potx"), role |-> "POWERPOINT"],
       [app_label |-> "POWERPOINT", filename |-> Name("Blank", ".potm"), role |-> "POWERPOINT"],
       [app_label |-> "EXCEL", filename |-> Name("Book", ".xltx"), role |-> "EXCEL"],
       [app_label |-> "EXCEL", filename |-> Name("Book", ".xltm"), role |-> "EXCEL"],
       [app_label |-> "EXCEL", filename |-> Name("Sheet", ".xltx"), role |-> "EXCEL"],
       [app_label |-> "EXCEL", filename |-> Name("Sheet", ".xltm"), role |-> "EXCEL"] >>

\* A slip: a file whose author is not allowed goes on to the copy.
install_template_check_no_gate(dir, filename, allowed_authors, validation_enabled) ==
    IF filename \notin DOMAIN dir THEN "missing" ELSE "allowed"

\* install_template up to its author gate: what becomes of the tuple
install_template_check(dir, filename, allowed_authors, validation_enabled) ==
    IF filename \notin DOMAIN dir THEN "missing"
    ELSE IF ~ check_template_author(filename, dir[filename], allowed_authors,
                                    validation_enabled).allowed
    THEN "blocked"
    ELSE "allowed"

\* A slip: custom templates go to the folder of their application's base
\* templates.
custom_destination_root_by_app(extension, destinations) ==
    destination_for_extension(extension, destinations)

\* The destination folder copy_custom_templates picks for an extension.
custom_destination_root(extension, destinations) ==
    IF extension \in {".xltx", ".xltm"} THEN destinations.EXCEL_CUSTOM
    ELSE IF extension \in {".dotx", ".dotm"} THEN destinations.WORD_CUSTOM
    ELSE IF extension \in {".potx", ".potm"} THEN destinations.POWERPOINT_CUSTOM
    ELSE destination_for_extension(extension, destinations)

\* A slip: the custom loop does not pass over the files of a base name.
copy_custom_check_no_skip(dir, filename, destinations, allowed_authors, validation_enabled) ==
    IF custom_destination_root(Lower(Suffix(filename)), destinations) = None
    THEN "no_destination"
    ELSE IF ~ check_template_author(filename, dir[filename], allowed_authors,
                                    validation_enabled).allowed
    THEN "blocked"
    ELSE "allowed"

\* One pass of the loop of copy_custom_templates up to its author gate.
copy_custom_check(dir, filename, destinations, allowed_authors, validation_enabled) ==
    IF filename \in BASE_TEMPLATE_NAMES THEN "skipped_base"
    ELSE IF custom_destination_root(Lower(Suffix(filename)), destinations) = None
    THEN "no_destination"
    ELSE IF ~ check_template_author(filename, dir[filename], allowed_authors,
                                    validation_enabled).allowed
    THEN "blocked"
    ELSE "allowed"

\* A Python dict display: a key given twice keeps its first place and takes
\* the last value.
DictLiteral(pairs) ==
    LET indexed == [ i \in DOMAIN pairs |-> [i |-> i, key |-> pairs[i].key] ]
        kept == SelectSeq(indexed, LAMBDA e : \A j \in 1..(e.i - 1) : pairs[j].key # e.key)
        last(k) == CHOOSE j \in DOMAIN pairs :
                     /\ pairs[j].key = k
                     /\ \A m \in DOMAIN pairs : pairs[m].key = k => m <= j
    IN  [ n \in DOMAIN kept |-> [key |-> kept[n].key, value |-> pairs[last(kept[n].key)].value] ]

RECURSIVE DictTargets(_)
\* for root, files in targets.items(): for name in files: root / name
DictTargets(d) ==
    IF Len(d) = 0 THEN <<>>
    ELSE [ i \in 1..Len(d[1].value) |-> Path(d[1].key, d[1].value[i]) ]
         \o DictTargets(SubSeq(d, 2, Len(d)))

\* The `targets` table of remove_installed_templates, in iteration order.
installed_targets(destinations) ==
    DictTargets(DictLiteral(
        << [key |-> destinations.WORD, value |-> WordBaseNames],
           [key |-> destinations.POWERPOINT, value |-> PowerPointBaseNames],
           [key |-> destinations.EXCEL, value |-> ExcelBaseNames],
           [key |-> destinations.THEMES, value |-> <<>>] >>))

RECURSIVE RemoveInstalledLoop(_, _, _, _, _)
\* The loop of remove_installed_templates over [files, backups, failures].
RemoveInstalledLoop(st, targets, held, minute, faults) ==
    IF Len(targets) = 0 THEN st
    ELSE LET target == targets[1]
             saved == backup_existing(st.files, st.backups, target, minute, faults)
             next == IF ~ Exists(st.files, target) THEN st
                     ELSE IF backup_existing_raises(st.files, target, faults)
                     THEN [st EXCEPT !.failures = Append(@, target)]
                     ELSE IF target \in held
                     THEN [st EXCEPT !.backups = saved, !.failures = Append(@, target)]
                     ELSE [st EXCEPT !.backups = saved, !.files = Remove(@, target)]
         IN  RemoveInstalledLoop(next, SubSeq(targets, 2, Len(targets)), held, minute, faults)

\* common.remove_installed_templates
remove_installed_templates(f, b, destinations, held, minute, faults) ==
    RemoveInstalledLoop([files |-> f, backups |-> b, failures |-> <<>>],
                        installed_targets(destinations), held, minute, faults)

\* common.remove_normal_templates: the four Word templates of the roaming
\* folder are unlinked, without a backup
remove_normal_templates(f, p, held) ==
    LET targets == { Path(p.ROAMING, n) : n \in Range(WordBaseNames) }
    IN  [ q \in DOMAIN f \ { t \in targets : t \notin held } |-> f[q] ]

\* destinations.values()
DestinationValues(destinations) == { destinations[r] : r \in DOMAIN destinations }

\* A slip: every template file under the destination folders is unlinked.
delete_custom_copies_every_template(f, dir, destinations, held) ==
    LET candidates == { q \in DOMAIN f : /\ q.dir \in DestinationValues(destinations)
                                         /\ q.name \notin BASE_TEMPLATE_NAMES
                                         /\ Lower(Suffix(q.name)) \in SUPPORTED_TEMPLATE_EXTENSIONS }
    IN  [ q \in DOMAIN f \ { c \in candidates : c \notin held } |-> f[q] ]

\* A slip: only the folder the classifier picks is cleaned.
delete_custom_copies_classified_only(f, dir, destinations, held) ==
    LET custom == { n \in TemplateFiles(dir) : n \notin BASE_TEMPLATE_NAMES }
        candidates == { Path(custom_destination_root(Lower(Suffix(n)), destinations), n) :
                          n \in custom }
    IN  [ q \in DOMAIN f \ { c \in candidates : c \notin held } |-> f[q] ]

\* common.delete_custom_copies: each payload name that is no base name is
\* unlinked under every destination folder
delete_custom_copies(f, dir, destinations, held) ==
    LET custom == { n \in TemplateFiles(dir) : n \notin BASE_TEMPLATE_NAMES }
        candidates == { Path(d, n) : d \in DestinationValues(destinations), n \in custom }
    IN  [ q \in DOMAIN f \ { c \in candidates : c \notin held } |-> f[q] ]

(***************************************************************************)
(* State.                                                                  *)
(*   cname, cpaths, cresult       SpecClassify: a name, the resolved       *)
(*                                paths, what each classifier returned     *)
(*   atarget ... acli             SpecAuthor: a path, an allowlist, the    *)
(*                                result of the check and of the CLI       *)
(*   key, prevKey, lastOp, opCount  SpecMru: one "File MRU" key, the key   *)
(*                                before the last operation, the operation *)
(*   env ... runStart             Spec: see "install and uninstall runs"   *)
(*   lastCopied                   Spec: per application, the destination   *)
(*                                of the last template the install run     *)
(*                                copied (history of the run)              *)
(*   subkeys ... keysCount        SpecKeys: the subkeys of "Recent         *)
(*                                Templates", the File MRU keys now and    *)
(*                                before the last operation, the key paths *)
(*                                that refuse, the operation               *)
(***************************************************************************)
VARIABLES cname, cpaths, cresult,
          key, prevKey, lastOp, opCount,
          atarget, aallowed, avalidation, aresult, acli,
          env, payload, files, backups, registry, held, now,
          pc, idx, queue, runs, exitCode, totals, failures, lastStep, runStart,
          lastCopied,
          subkeys, appKeys, appKeysBefore, keyFaults, keysOp, keysCount

classVars == <<cname, cpaths, cresult>>

mruVars == <<key, prevKey, lastOp, opCount>>

authorVars == <<atarget, aallowed, avalidation, aresult, acli>>

runVars ==
    << env, payload, files, backups, registry, held, now,
       pc, idx, queue, runs, exitCode, totals, failures, lastStep, runStart, lastCopied >>

keysVars == <<subkeys, appKeys, appKeysBefore, keyFaults, keysOp, keysCount>>

vars == <<classVars, mruVars, authorVars, runVars, keysVars>>

(***************************************************************************)
(* SpecClassify: the classifier applied to one file name.                  *)
(***************************************************************************)
ClassifyStems ==
    {"Normal", "NormalEmail", "Blank", "Book", "Sheet", "normal", "Custom", "Report", "Budget"}

ClassifyExts ==
    { ".dotx", ".dotm", ".potx", ".potm", ".xltx", ".xltm", ".thmx",
      ".DOTX", ".Dotm", ".POTX", ".XLTM", ".THMX", ".txt", ".TXT", "" }

ClassifyNames == { Name(s, e) : s \in ClassifyStems, e \in ClassifyExts }

NotClassified ==
    [by_name |-> "unset", by_file |-> "unset", by_install |-> "unset", by_mru |-> {"unset"}]

ClassifyInit ==
    /\ cname \in ClassifyNames
    /\ cpaths \in PathConfigs
    /\ cresult = NotClassified

ClassifyIdle ==
    /\ cname = Name("", "")
    /\ cpaths = PathsDistinct
    /\ cresult = NotClassified

\* office_destination.resolve_destination_for_name(name, paths)
ResolveByName ==
    /\ cresult.by_name = "unset"
    /\ cresult' = [cresult EXCEPT !.by_name = resolve_destination_for_name(cname, cpaths)]
    /\ UNCHANGED <<keysVars, cname, cpaths, mruVars, authorVars, runVars>>

\* office_files.iter_office_files: _destination_for_file(path.name, path.suffix.lower(), paths)
ResolveByFile ==
    /\ cresult.by_file = "unset"
    /\ cresult' = [cresult EXCEPT
                     !.by_file = destination_for_file(cname, Lower(Suffix(cname)), cpaths)]
    /\ UNCHANGED <<keysVars, cname, cpaths, mruVars, authorVars, runVars>>

\* The installer on a payload folder that holds the one file cname: the
\* folder the file is copied into, by the base tuple of main that names it
\* or else by the loop of copy_custom_templates ("skipped" when neither
\* handles the name, None when the loop finds no destination).
InstallDestination ==
    /\ cresult.by_install = "unset"
    /\ cresult' = [cresult EXCEPT !.by_install =
         LET destinations == default_destinations(cpaths)
             tuples == { i \in DOMAIN base_targets : base_targets[i].filename = cname }
         IN  IF tuples # {}
             THEN destinations[base_targets[CHOOSE i \in tuples : TRUE].role]
             ELSE IF cname \notin TemplateFiles([ n \in {cname} |-> Archive(TRUE, TRUE, "") ])
             THEN "skipped"
             ELSE custom_destination_root(Lower(Suffix(cname)), destinations)]
    /\ UNCHANGED <<keysVars, cname, cpaths, mruVars, authorVars, runVars>>

\* _collect_mru_targets on the same payload folder: the folders of the
\* targets collected under the name cname.
CollectMruTargets ==
    /\ cresult.by_mru = {"unset"}
    /\ cresult' = [cresult EXCEPT !.by_mru =
         { t.dir : t \in { u \in collect_mru_targets([ n \in {cname} |-> Archive(TRUE, TRUE, "") ],
                                                     default_destinations(cpaths)) :
                             u.name = cname } }]
    /\ UNCHANGED <<keysVars, cname, cpaths, mruVars, authorVars, runVars>>

ClassifyNext == ResolveByName \/ ResolveByFile \/ InstallDestination \/ CollectMruTargets

(***************************************************************************)
(* SpecMru / SpecMruAny: one "File MRU" key under a bounded sequence of   *)
(* MRU writes and exclusion rewrites.                                      *)
(***************************************************************************)
MaxMruOps == 2

\* Thirteen paths, no two equal ignoring case.
MruUniverse ==
    << Path("CustomWord", Name("Custom", ".dotx")),
       Path("Docs", Name("Other", ".dotx")),
       Path("Docs", Name("Report", ".dotx")),
       Path("Docs", Name("Budget", ".dotx")),
       Path("Docs", Name("Brand", ".dotx")),
       Path("Docs", Name("Deck", ".dotx")),
       Path("Docs", Name("Other", ".dotm")),
       Path("Docs", Name("Report", ".dotm")),
       Path("Docs", Name("Budget", ".dotm")),
       Path("Docs", Name("Brand", ".dotm")),
       Path("Docs", Name("Deck", ".dotm")),
       Path("CustomWord", Name("Report", ".dotx")),
       Path("CustomWord", Name("Budget", ".dotm")) >>

\* MruUniverse[1] in another spelling
CustomUpper == Path("CUSTOMWORD", Name("CUSTOM", ".DOTX"))

\* A key as Office or an earlier write leaves it: Item 1..k, each the
\* prefix, "*" and a path, no path twice.
SeedKey(k, off, withMeta) ==
    [ items |-> [ i \in 1..k |-> [num |-> i, value |-> <<MRU_VALUE_PREFIX, MruUniverse[off + i]>>] ],
      meta |-> IF withMeta
               THEN [ i \in 1..k |-> Metadata(MruUniverse[off + i], MruUniverse[off + i].name.stem) ]
               ELSE <<>> ]

WellFormedKeys ==
    { SeedKey(k, off, m) : k \in 0..MruCapacity, off \in {0, 3}, m \in BOOLEAN }

\* Pre-existing content of other shapes: more items than the capacity, one
\* path twice, gaps in the numbering, another enumeration order, values
\* without a path or without the prefix.
OddKeys ==
    { SeedKey(k, 0, TRUE) : k \in (MruCapacity + 1)..(MruCapacity + 3) }
    \cup
    { [ items |-> << [num |-> 1, value |-> <<MRU_VALUE_PREFIX, MruUniverse[2]>>],
                     [num |-> 2, value |-> <<MRU_VALUE_PREFIX, MruUniverse[1]>>],
                     [num |-> 3, value |-> <<MRU_VALUE_PREFIX, CustomUpper>>] >>,
        meta |-> <<>> ],
      [ items |-> << [num |-> 1, value |-> <<MRU_VALUE_PREFIX, MruUniverse[2]>>],
                     [num |-> 3, value |-> <<MRU_VALUE_PREFIX, MruUniverse[3]>>],
                     [num |-> 4, value |-> <<MRU_VALUE_PREFIX, MruUniverse[1]>>] >>,
        meta |-> [ i \in {3} |-> Metadata(MruUniverse[3], "Report") ] ],
      [ items |-> << [num |-> 2, value |-> <<MRU_VALUE_PREFIX, MruUniverse[2]>>],
                     [num |-> 1, value |-> <<MRU_VALUE_PREFIX, MruUniverse[1]>>],
                     [num |-> 3, value |-> <<MRU_VALUE_PREFIX, MruUniverse[3]>>] >>,
        meta |-> [ i \in {1, 2} |-> Metadata(MruUniverse[i], MruUniverse[i].name.stem) ] ],
      [ items |-> << [num |-> 1, value |-> <<BlankText>>],
                     [num |-> 2, value |-> <<MRU_VALUE_PREFIX, SpaceText>>],
                     [num |-> 3, value |-> <<MruUniverse[2]>>],
                     [num |-> 4, value |-> <<MRU_VALUE_PREFIX, MRU_VALUE_PREFIX, MruUniverse[1]>>] >>,
        meta |-> <<>> ] }

NoOp == [kind |-> "none", path |-> BlankText, targets |-> {}]

\* The paths an MRU write is asked to put first.
WritePaths ==
    { MruUniverse[1], CustomUpper, MruUniverse[2], MruUniverse[12], MruUniverse[13] }

\* The target sets an exclusion rewrite is asked to drop.
TargetSets ==
    { {MruUniverse[1]}, {CustomUpper, MruUniverse[12]},
      {MruUniverse[2], MruUniverse[3], MruUniverse[13]} }

MruInit ==
    /\ key \in WellFormedKeys
    /\ prevKey = key
    /\ lastOp = NoOp
    /\ opCount = 0

MruAnyInit ==
    /\ key \in WellFormedKeys \cup OddKeys
    /\ prevKey = key
    /\ lastOp = NoOp
    /\ opCount = 0

MruIdle ==
    /\ key = EmptyKey
    /\ prevKey = EmptyKey
    /\ lastOp = NoOp
    /\ opCount = 0

\* _write_mru_entry(reg_path, file_path): CreateKeyEx succeeds
MruWrite ==
    /\ opCount < MaxMruOps
    /\ \E p \in WritePaths :
         /\ key' = write_mru_entry(key, p)
         /\ lastOp' = [kind |-> "write", path |-> p, targets |-> {}]
    /\ prevKey' = key
    /\ opCount' = opCount + 1
    /\ UNCHANGED <<keysVars, classVars, authorVars, runVars>>

\* _rewrite_mru_excluding(mru_path, targets): CreateKeyEx succeeds
MruRewrite ==
    /\ opCount < MaxMruOps
    /\ \E t \in TargetSets :
         /\ key' = rewrite_mru_excluding(key, t)
         /\ lastOp' = [kind |-> "rewrite", path |-> BlankText, targets |-> t]
    /\ prevKey' = key
    /\ opCount' = opCount + 1
    /\ UNCHANGED <<keysVars, classVars, authorVars, runVars>>

\* either operation when CreateKeyEx raises OSError: it returns at once
MruUnavailable ==
    /\ opCount < MaxMruOps
    /\ lastOp' = [kind |-> "unavailable", path |-> BlankText, targets |-> {}]
    /\ prevKey' = key
    /\ opCount' = opCount + 1
    /\ UNCHANGED <<keysVars, key, classVars, authorVars, runVars>>

MruNext == MruWrite \/ MruRewrite \/ MruUnavailable

\* The paths of a key's Item values, as _extract_mru_path reads them.
ItemPaths(k) == [ i \in DOMAIN k.items |-> extract_mru_path(k.items[i].value) ]

\* The extracted path of "Item n" (BlankText when the key has no such value).
ItemPath(k, n) ==
    IF \E i \in DOMAIN k.items : k.items[i].num = n
    THEN extract_mru_path(k.items[CHOOSE i \in DOMAIN k.items : k.items[i].num = n].value)
    ELSE BlankText

(***************************************************************************)
(* Spec: install and uninstall runs.                                       *)
(*   env       what a run reads from its environment: the resolved paths, *)
(*             AUTHOR_VALIDATION_ENABLED, whether the registry is there,   *)
(*             whether a run may start where the payload path check of    *)
(*             main fails (the working folder differs by run), what the   *)
(*             file system refuses                                         *)
(*   payload   the payload folder (name -> archive), never written        *)
(*   files     the destination folders; backups their Backups folders      *)
(*   registry  the File MRU keys; held the paths another process holds     *)
(*   now       the minute of the clock that stamps backups                 *)
(*   pc, idx, queue   where the running main is; runs, exitCode, totals,   *)
(*             failures what it has done; lastStep, runStart a record of   *)
(*             the last step and of the folders when the run began         *)
(***************************************************************************)
MaxRuns == 2

MaxMinute == 1

Good == Archive(TRUE, TRUE, "www.grada.cc")

GoodUpper == Archive(TRUE, TRUE, "WWW.GRADA.CC")

Evil == Archive(TRUE, TRUE, "evil.com")

NoAuthor == Archive(TRUE, TRUE, "")

Corrupt == Archive(FALSE, FALSE, "")

UserFile == Archive(TRUE, TRUE, "user")

\* A folder given by its (name or path, archive) pairs.
Folder(pairs) ==
    [ n \in { p[1] : p \in pairs } |-> (CHOOSE p \in pairs : p[1] = n)[2] ]

Normal_dotx == Name("Normal", ".dotx")

Custom_dotx == Name("Custom", ".dotx")

Book_xltx == Name("Book", ".xltx")

\* a base template of an allowed author beside a custom template of another
PayloadMixed == Folder({ <<Normal_dotx, Good>>, <<Custom_dotx, Evil>> })

\* templates of allowed authors for the three applications
PayloadFull ==
    Folder({ <<Book_xltx, GoodUpper>>, <<Custom_dotx, Good>>, <<Name("Deck", ".potx"), Good>> })

\* an upper-case extension, a theme that is no archive, a file that is no template
PayloadOdd ==
    Folder({ <<Name("Report", ".DOTX"), Good>>, <<Name("Brand", ".thmx"), Corrupt>>,
             <<Name("notes", ".txt"), NoAuthor>> })

\* base templates without an allowed author beside an allowed custom one
PayloadBlocked ==
    Folder({ <<Name("Normal", ".dotm"), NoAuthor>>, <<Name("Sheet", ".xltm"), Evil>>,
             <<Name("Budget", ".xltm"), GoodUpper>> })

\* a base template and two custom templates of the same application
PayloadPair ==
    Folder({ <<Normal_dotx, Good>>, <<Custom_dotx, Good>>, <<Name("Report", ".dotx"), Good>> })

\* destination folders that already hold the user's templates
FilesInstalled ==
    Folder({ <<Path("Roaming", Normal_dotx), UserFile>>,
             <<Path("CustomWord", Custom_dotx), UserFile>>,
             <<Path("XLSTART", Book_xltx), UserFile>> })

\* the user's files under names of the payload, in other folders than the
\* installer would pick, beside unrelated files
FilesStray ==
    Folder({ <<Path("Roaming", Name("Normal", ".dotm")), UserFile>>,
             <<Path("XLSTART", Name("Sheet", ".xltm")), UserFile>>,
             <<Path("CustomAlt", Custom_dotx), UserFile>>,
             <<Path("CustomExcel", Book_xltx), UserFile>>,
             <<Path("CustomWord", Name("Other", ".dotx")), UserFile>> })

\* versions of _find_mru_paths; an account container is an ADAL_/LIVEID_ subkey
KeyPath(version, container) == [version |-> version, container |-> container]

VersionKeys == { KeyPath(v, "") : v \in {"16.0", "15.0", "14.0", "12.0"} }

EmptyRegistry == [ a \in Apps |-> [ k \in VersionKeys |-> EmptyKey ] ]

ListKey(entries) ==
    [ items |-> [ i \in DOMAIN entries |-> [num |-> i, value |-> <<MRU_VALUE_PREFIX, entries[i]>>] ],
      meta |-> [ i \in DOMAIN entries |-> Metadata(entries[i], entries[i].name.stem) ] ]

UsedRegistry ==
    [ a \in Apps |->
        [ k \in VersionKeys \cup (IF a = "WORD" THEN {KeyPath("16.0", "ADAL_1")} ELSE {}) |->
            IF a = "WORD" /\ k = KeyPath("16.0", "")
            THEN ListKey(<< CustomUpper, MruUniverse[2] >>)
            ELSE IF a = "WORD" /\ k = KeyPath("16.0", "ADAL_1")
            THEN ListKey(<< MruUniverse[3] >>)
            ELSE IF a = "EXCEL" /\ k = KeyPath("16.0", "")
            THEN ListKey(<< Path("XLSTART", Name("Book", ".xltx")),
                            Path("Docs", Name("Budget", ".xltm")) >>)
            ELSE EmptyKey ] ]

Environment(paths, validation_enabled, available, fatal) ==
    [paths |-> paths, validation_enabled |-> validation_enabled, winreg |-> available,
     fatal |-> fatal, faults |-> NoFaults]

\* The usual machine, on which the file system refuses something.
Faulty(faults) == [Environment(PathsDistinct, TRUE, TRUE, FALSE) EXCEPT !.faults = faults]

Scenario(e, p, f, r, h) == [env |-> e, payload |-> p, files |-> f, registry |-> r, held |-> h]

\* The machines a run starts on.
Scenarios ==
    LET usual == Environment(PathsDistinct, TRUE, TRUE, FALSE)
    IN  { Scenario(usual, PayloadMixed, FilesInstalled, UsedRegistry, {}),
          Scenario(usual, PayloadMixed, FilesInstalled, UsedRegistry,
                   {Path("Roaming", Normal_dotx)}),
          Scenario(usual, PayloadMixed, NoFiles, UsedRegistry, {}),
          Scenario(usual, PayloadFull, FilesInstalled, UsedRegistry, {}),
          Scenario(usual, PayloadFull, FilesInstalled, UsedRegistry,
                   {Path("CustomWord", Custom_dotx)}),
          Scenario(usual, PayloadFull, FilesStray, UsedRegistry, {}),
          Scenario(Environment(PathsShared, TRUE, TRUE, FALSE),
                   PayloadFull, NoFiles, EmptyRegistry, {}),
          Scenario(Environment(PathsDistinct, TRUE, FALSE, FALSE),
                   PayloadFull, FilesInstalled, UsedRegistry, {}),
          Scenario(usual, PayloadBlocked, FilesStray, UsedRegistry, {}),
          Scenario(Environment(PathsDistinct, FALSE, TRUE, FALSE),
                   PayloadBlocked, NoFiles, EmptyRegistry, {}),
          Scenario(usual, PayloadOdd, NoFiles, UsedRegistry, {}),
          Scenario(Environment(PathsDistinct, TRUE, TRUE, TRUE),
                   PayloadMixed, FilesInstalled, UsedRegistry, {}),
          Scenario(Faulty(Faults({}, {"Roaming", "XLSTART"}, {})),
                   PayloadMixed, FilesInstalled, UsedRegistry, {}),
          Scenario(Faulty(Faults({}, {}, {"Roaming", "XLSTART"})),
                   PayloadFull, FilesInstalled, UsedRegistry, {}),
          Scenario(Faulty(Faults({"XLSTART"}, {}, {})),
                   PayloadFull, NoFiles, UsedRegistry, {}),
          Scenario(Faulty(Faults({"CustomWord"}, {}, {})),
                   PayloadFull, NoFiles, UsedRegistry, {}),
          Scenario(usual, PayloadPair, NoFiles, UsedRegistry, {}) }

NoStep == [op |-> "none", name |-> Name("", ""), dest |-> BlankText, outcome |-> "none"]

Step(op, name, dest, outcome) == [op |-> op, name |-> name, dest |-> dest, outcome |-> outcome]

ZeroTotals == [files |-> 0, errors |-> 0, blocked |-> 0]

\* No template of any application has been copied by the run yet.
NoneCopied == [ a \in Apps |-> BlankText ]

Snapshot == [files |-> files, backups |-> backups, registry |-> registry]

RunInit ==
    /\ \E s \in Scenarios :
         /\ env = s.env
         /\ payload = s.payload
         /\ files = s.files
         /\ registry = s.registry
         /\ held = s.held
    /\ backups = [ q \in {} |-> UserFile ]
    /\ now = 0
    /\ pc = "idle"
    /\ idx = 0
    /\ queue = <<>>
    /\ runs = <<>>
    /\ exitCode = 0
    /\ totals = ZeroTotals
    /\ failures = <<>>
    /\ lastStep = NoStep
    /\ runStart = [files |-> files, backups |-> backups, registry |-> registry]
    /\ lastCopied = NoneCopied

RunIdle ==
    /\ env = Environment(PathsDistinct, TRUE, TRUE, FALSE)
    /\ payload = NoFiles
    /\ files = NoFiles
    /\ backups = [ q \in {} |-> UserFile ]
    /\ registry = EmptyRegistry
    /\ held = {}
    /\ now = 0
    /\ pc = "idle"
    /\ idx = 0
    /\ queue = <<>>
    /\ runs = <<>>
    /\ exitCode = 0
    /\ totals = ZeroTotals
    /\ failures = <<>>
    /\ lastStep = NoStep
    /\ runStart = [files |-> NoFiles, backups |-> [ q \in {} |-> UserFile ], registry |-> EmptyRegistry]
    /\ lastCopied = NoneCopied

Destinations == default_destinations(env.paths)

\* A run as `runs` records it: which main, and whether an OSError was caught.
Run(kind) == [kind |-> kind, oserror |-> FALSE]

\* `runs` once the running main has caught an OSError (or not)
Caught(raised) == [runs EXCEPT ![Len(runs)].oserror = @ \/ raised]

\* installer main: the payload-path check, then InstallFlags()
StartInstall ==
    /\ pc = "idle"
    /\ Len(runs) < MaxRuns
    /\ runs' = Append(runs, Run("install"))
    /\ runStart' = Snapshot
    /\ totals' = ZeroTotals
    /\ failures' = <<>>
    /\ queue' = <<>>
    /\ lastCopied' = NoneCopied
    /\ \E fatal \in {env.fatal, FALSE} :
         IF fatal
         THEN /\ exitCode' = 1
              /\ lastStep' = Step("exit_with_error", Name("", ""), BlankText, "fatal")
              /\ UNCHANGED <<pc, idx>>
         ELSE /\ exitCode' = 0
              /\ pc' = "install_base"
              /\ idx' = 1
              /\ lastStep' = Step("start_install", Name("", ""), BlankText, "started")
    /\ UNCHANGED <<keysVars, classVars, mruVars, authorVars, env, payload, files, backups, registry, held,
                   now>>

\* one pass of the loop over base_targets: install_template.  An OSError
\* raised outside its try (ensure_directory of the destination folder,
\* ensure_directory inside backup_existing) is caught nowhere: main ends
\* with a traceback and exit status 1.
InstallTemplate ==
    /\ pc = "install_base"
    /\ idx <= Len(base_targets)
    /\ LET t == base_targets[idx]
           destination == Path(Destinations[t.role], t.filename)
           check == install_template_check(payload, t.filename,
                        DEFAULT_ALLOWED_TEMPLATE_AUTHORS, env.validation_enabled)
           uncaught ==
               \/ ensure_directory_raises(Destinations[t.role], env.faults)
               \/ check = "allowed" /\ backup_existing_raises(files, destination, env.faults)
           copied == ~ uncaught /\ check = "allowed" /\ destination \notin held
           outcome == IF uncaught THEN "uncaught"
                      ELSE IF check # "allowed" THEN check
                      ELSE IF copied THEN "copied" ELSE "error"
       IN  /\ lastStep' = Step("install_template", t.filename, destination, outcome)
           /\ backups' = IF check = "allowed" /\ ~ uncaught
                         THEN backup_existing(files, backups, destination, now, env.faults)
                         ELSE backups
           /\ pc' = IF uncaught THEN "idle" ELSE pc
           /\ idx' = IF uncaught THEN idx ELSE idx + 1
           /\ exitCode' = IF uncaught THEN 1 ELSE exitCode
           /\ files' = IF copied THEN Put(files, destination, payload[t.filename]) ELSE files
           /\ totals' = [totals EXCEPT
                           !.files = IF outcome = "copied" THEN @ + 1 ELSE @,
                           !.errors = IF outcome \in {"missing", "error"} THEN @ + 1 ELSE @,
                           !.blocked = IF outcome = "blocked" THEN @ + 1 ELSE @]
           /\ registry' = IF copied
                          THEN update_mru_if_applicable(registry, t.app_label, destination,
                                                        env.winreg)
                          ELSE registry
           /\ runs' = Caught(outcome = "error")
           /\ lastCopied' = IF copied THEN [lastCopied EXCEPT ![t.app_label] = destination]
                             ELSE lastCopied
    /\ UNCHANGED <<keysVars, classVars, mruVars, authorVars, env, payload, held, now, queue, failures,
                   runStart>>

\* copy_custom_templates is entered: iter_template_files(base_dir)
CopyCustomBegin ==
    /\ pc = "install_base"
    /\ idx > Len(base_targets)
    /\ queue' \in IterOrders(TemplateFiles(payload))
    /\ pc' = "install_custom"
    /\ lastStep' = Step("copy_custom_templates", Name("", ""), BlankText, "started")
    /\ UNCHANGED <<keysVars, classVars, mruVars, authorVars, env, payload, files, backups, registry, held,
                   now, idx, runs, exitCode, totals, failures, runStart,
                   lastCopied>>

\* one pass of the loop of copy_custom_templates
CopyCustomStep ==
    /\ pc = "install_custom"
    /\ Len(queue) > 0
    /\ LET filename == queue[1]
           extension == Lower(Suffix(filename))
           destination_root == custom_destination_root(extension, Destinations)
           destination == Path(destination_root, filename)
           check == copy_custom_check(payload, filename, Destinations,
                        DEFAULT_ALLOWED_TEMPLATE_AUTHORS, env.validation_enabled)
           copied == /\ check = "allowed"
                     /\ ~ ensure_directory_raises(destination_root, env.faults)
                     /\ destination \notin held
           outcome == IF check # "allowed" THEN check
                      ELSE IF copied THEN "copied" ELSE "error"
       IN  /\ lastStep' = Step("copy_custom_templates", filename, destination, outcome)
           /\ files' = IF copied THEN Put(files, destination, payload[filename]) ELSE files
           /\ totals' = [totals EXCEPT
                           !.files = IF outcome = "copied" THEN @ + 1 ELSE @,
                           !.errors = IF outcome = "error" THEN @ + 1 ELSE @,
                           !.blocked = IF outcome = "blocked" THEN @ + 1 ELSE @]
           /\ registry' = IF copied
                          THEN update_mru_if_applicable_extension(registry, extension,
                                                                  destination, env.winreg)
                          ELSE registry
           /\ runs' = Caught(outcome = "error")
           /\ lastCopied' = IF copied /\ AppOfExtension(extension) \in Apps
                             THEN [lastCopied EXCEPT ![AppOfExtension(extension)] = destination]
                             ELSE lastCopied
    /\ queue' = SubSeq(queue, 2, Len(queue))
    /\ UNCHANGED <<keysVars, classVars, mruVars, authorVars, env, payload, backups, held, now, pc, idx,
                   exitCode, failures, runStart>>

\* installer main returns 0
InstallDone ==
    /\ pc = "install_custom"
    /\ Len(queue) = 0
    /\ pc' = "idle"
    /\ idx' = 0
    /\ exitCode' = 0
    /\ lastStep' = Step("install_done", Name("", ""), BlankText, "done")
    /\ UNCHANGED <<keysVars, classVars, mruVars, authorVars, env, payload, files, backups, registry, held,
                   now, queue, runs, totals, failures, runStart,
                   lastCopied>>

\* A slip: the uninstaller checks the payload path after its first step.
StartUninstall_check_after_remove ==
    /\ pc = "idle"
    /\ Len(runs) < MaxRuns
    /\ runs' = Append(runs, Run("uninstall"))
    /\ runStart' = Snapshot
    /\ totals' = ZeroTotals
    /\ failures' = <<>>
    /\ queue' = <<>>
    /\ idx' = 0
    /\ lastCopied' = lastCopied
    /\ \E fatal \in {env.fatal, FALSE} :
         IF fatal
         THEN /\ exitCode' = 1
              /\ lastStep' = Step("exit_with_error", Name("", ""), BlankText, "fatal")
              /\ pc' = pc
              /\ files' = remove_normal_templates(files, env.paths, held)
         ELSE /\ exitCode' = 0
              /\ pc' = "un_normal"
              /\ lastStep' = Step("start_uninstall", Name("", ""), BlankText, "started")
              /\ files' = files
    /\ UNCHANGED <<keysVars, classVars, mruVars, authorVars, env, payload, backups, registry, held, now>>

\* uninstaller main: the payload-path check, then default_destinations()
StartUninstall ==
    /\ pc = "idle"
    /\ Len(runs) < MaxRuns
    /\ runs' = Append(runs, Run("uninstall"))
    /\ runStart' = Snapshot
    /\ totals' = ZeroTotals
    /\ failures' = <<>>
    /\ queue' = <<>>
    /\ idx' = 0
    /\ lastCopied' = lastCopied
    /\ \E fatal \in {env.fatal, FALSE} :
         IF fatal
         THEN /\ exitCode' = 1
              /\ lastStep' = Step("exit_with_error", Name("", ""), BlankText, "fatal")
              /\ pc' = pc
         ELSE /\ exitCode' = 0
              /\ pc' = "un_normal"
              /\ lastStep' = Step("start_uninstall", Name("", ""), BlankText, "started")
    /\ UNCHANGED <<keysVars, classVars, mruVars, authorVars, env, payload, files, backups, registry, held,
                   now>>

\* uninstaller main: remove_normal_templates, the first call and the last
RemoveNormalTemplates ==
    /\ pc \in {"un_normal", "un_normal_again"}
    /\ files' = remove_normal_templates(files, env.paths, held)
    /\ runs' = Caught(\E n \in Range(WordBaseNames) :
                        Path(env.paths.ROAMING, n) \in held \cap DOMAIN files)
    /\ lastStep' = Step("remove_normal_templates", Name("", ""), BlankText, pc)
    /\ pc' = IF pc = "un_normal" THEN "un_installed" ELSE "un_done"
    /\ UNCHANGED <<keysVars, classVars, mruVars, authorVars, env, payload, backups, registry, held, now,
                   idx, queue, exitCode, totals, failures, runStart,
                   lastCopied>>

\* uninstaller main: remove_installed_templates
RemoveInstalledTemplates ==
    /\ pc = "un_installed"
    /\ LET done == remove_installed_templates(files, backups, Destinations, held, now,
                                                  env.faults)
       IN  /\ files' = done.files
           /\ backups' = done.backups
           /\ failures' = done.failures
           /\ runs' = Caught(done.failures # <<>>)
    /\ lastStep' = Step("remove_installed_templates", Name("", ""), BlankText, "done")
    /\ pc' = "un_custom"
    /\ UNCHANGED <<keysVars, classVars, mruVars, authorVars, env, payload, registry, held, now, idx,
                   queue, exitCode, totals, runStart,
                   lastCopied>>

\* uninstaller main: delete_custom_copies
DeleteCustomCopies ==
    /\ pc = "un_custom"
    /\ files' = delete_custom_copies(files, payload, Destinations, held)
    /\ runs' = Caught(\E c \in held \cap DOMAIN files :
                        /\ c.name \in TemplateFiles(payload) \ BASE_TEMPLATE_NAMES
                        /\ c.dir \in DestinationValues(Destinations))
    /\ lastStep' = Step("delete_custom_copies", Name("", ""), BlankText, "done")
    /\ pc' = "un_mru"
    /\ UNCHANGED <<keysVars, classVars, mruVars, authorVars, env, payload, backups, registry, held, now,
                   idx, queue, exitCode, totals, failures, runStart,
                   lastCopied>>

\* uninstaller main: clear_mru_entries_for_payload
ClearMruEntries ==
    /\ pc = "un_mru"
    /\ registry' = clear_mru_entries_for_payload(registry, payload, Destinations, env.winreg)
    /\ lastStep' = Step("clear_mru_entries_for_payload", Name("", ""), BlankText, "done")
    /\ pc' = "un_normal_again"
    /\ UNCHANGED <<keysVars, classVars, mruVars, authorVars, env, payload, files, backups, held, now, idx,
                   queue, runs, exitCode, totals, failures, runStart,
                   lastCopied>>

\* uninstaller main returns 0
UninstallDone ==
    /\ pc = "un_done"
    /\ pc' = "idle"
    /\ exitCode' = 0
    /\ lastStep' = Step("uninstall_done", Name("", ""), BlankText, "done")
    /\ UNCHANGED <<keysVars, classVars, mruVars, authorVars, env, payload, files, backups, registry, held,
                   now, idx, queue, runs, totals, failures, runStart,
                   lastCopied>>

\* The clock that datetime.now() reads moves on to the next minute.
Tick ==
    /\ now < MaxMinute
    /\ now' = now + 1
    /\ UNCHANGED <<keysVars, classVars, mruVars, authorVars, env, payload, files, backups, registry, held,
                   pc, idx, queue, runs, exitCode, totals, failures, lastStep, runStart,
                   lastCopied>>

\* The process that held files open lets go of them.
ReleaseLocks ==
    /\ held # {}
    /\ held' = {}
    /\ UNCHANGED <<keysVars, classVars, mruVars, authorVars, env, payload, files, backups, registry, now,
                   pc, idx, queue, runs, exitCode, totals, failures, lastStep, runStart,
                   lastCopied>>

RunNext ==
    \/ StartInstall
    \/ InstallTemplate
    \/ CopyCustomBegin
    \/ CopyCustomStep
    \/ InstallDone
    \/ StartUninstall
    \/ RemoveNormalTemplates
    \/ RemoveInstalledTemplates
    \/ DeleteCustomCopies
    \/ ClearMruEntries
    \/ UninstallDone
    \/ Tick
    \/ ReleaseLocks

(***************************************************************************)
(* SpecAuthor: check_template_author and the installer's --check-author   *)
(* applied to one path.                                                    *)
(***************************************************************************)
AuthorCreators ==
    { "", " ", "www.grada.cc", "WWW.GRADA.CC", " www.grada.cc ", "Www.Gradaz.Com",
      "grada.cc", "www.grada.cc.evil", "evil.com" }

\* What a file may hold: no ZIP container, a container without
\* docProps/core.xml, or core metadata with some creator text.
AuthorArchives ==
    {Archive(FALSE, FALSE, ""), Archive(TRUE, FALSE, "")}
    \cup { Archive(TRUE, TRUE, c) : c \in AuthorCreators }

AuthorNames ==
    { Name(st, e) : st \in {"Report", "Normal"},
                    e \in {".dotx", ".DOTX", ".xltm", ".thmx", ".THMX", ".txt"} }

NoFolder == [ n \in {} |-> Archive(FALSE, FALSE, "") ]

FolderValidAndAuthorless ==
    Folder({ <<Name("Report", ".dotx"), Good>>, <<Name("Budget", ".xltm"), NoAuthor>> })

FolderBad ==
    Folder({ <<Name("Report", ".dotx"), Corrupt>>, <<Name("Deck", ".potx"), Evil>>,
             <<Name("Brand", ".thmx"), Good>>,
             <<Name("Custom", ".dotx"), Archive(TRUE, FALSE, "")>> })

AuthorFolders ==
    {NoFolder, FolderValidAndAuthorless, FolderBad, PayloadMixed, PayloadOdd, PayloadBlocked}

AuthorTargets ==
    { Target("missing", n, Archive(FALSE, FALSE, ""), NoFolder) : n \in AuthorNames }
    \cup { Target("file", n, a, NoFolder) : n \in AuthorNames, a \in AuthorArchives }
    \cup { Target("dir", Name("", ""), Archive(FALSE, FALSE, ""), d) : d \in AuthorFolders }

\* Allowlists a caller passes; the empty one stands for None and for a
\* list without entries, which both select the default.
AuthorAllowlists ==
    { DEFAULT_ALLOWED_TEMPLATE_AUTHORS, <<>>, <<"Evil.com", " ">>, <<" www.grada.cc ">> }

AuthorInit ==
    /\ atarget \in AuthorTargets
    /\ aallowed \in AuthorAllowlists
    /\ avalidation \in BOOLEAN
    /\ aresult = <<>>
    /\ acli = <<>>

AuthorIdle ==
    /\ atarget = Target("missing", Name("", ""), Archive(FALSE, FALSE, ""), NoFolder)
    /\ aallowed = <<>>
    /\ avalidation = TRUE
    /\ aresult = <<>>
    /\ acli = <<>>

\* common.check_template_author(target, allowed_authors, validation_enabled)
CheckTemplateAuthor ==
    /\ aresult = <<>>
    /\ \E order \in IterOrders(TemplateFiles(atarget.folder)) :
         aresult' = << check_template_author_path(atarget, order, aallowed, avalidation) >>
    /\ UNCHANGED <<keysVars, atarget, aallowed, avalidation, acli, classVars, mruVars, runVars>>

\* main of the installer with --check-author: the line printed, the exit
\* code.  The payload path check comes first; when it fails main leaves
\* through exit_with_error before the author check.
CheckAuthorCli ==
    /\ acli = <<>>
    /\ \/ acli' = << [ printed |-> "", exit |-> 1, fatal |-> TRUE ] >>
       \/ \E order \in IterOrders(TemplateFiles(atarget.folder)) :
            LET result == check_template_author_path(atarget, order, aallowed, avalidation)
            IN  acli' = << [ printed |-> as_cli_output(result),
                             exit |-> IF result.allowed THEN 0 ELSE 1, fatal |-> FALSE ] >>
    /\ UNCHANGED <<keysVars, atarget, aallowed, avalidation, aresult, classVars, mruVars, runVars>>

AuthorNext == CheckTemplateAuthor \/ CheckAuthorCli

(***************************************************************************)
(* SpecKeys: update_mru_for_template and _clear_mru_for_app over the key   *)
(* paths of one application, some of which refuse.                         *)
(***************************************************************************)
\* What EnumKey lists under "Recent Templates" of each version.
SubkeyLayouts ==
    { [ v \in Range(OfficeVersions) |-> <<>> ],
      [ v \in Range(OfficeVersions) |-> IF v = "16.0" THEN << "ADAL_1", "Other" >> ELSE <<>> ],
      [ v \in Range(OfficeVersions) |->
          IF v = "16.0" THEN << "LIVEID_3" >>
          ELSE IF v = "14.0" THEN << "Other", "adal_2" >> ELSE <<>> ] }

\* Every File MRU key there is under the layout, discovered or not.
AllKeyPaths(layout) ==
    { KeyPath(v, "") : v \in Range(OfficeVersions) }
    \cup UNION { { KeyPath(v, layout[v][i]) : i \in DOMAIN layout[v] } :
                   v \in Range(OfficeVersions) }

\* The lists the keys hold to begin with.
SeededKeys(layout) ==
    [ p \in AllKeyPaths(layout) |->
        IF p = KeyPath("16.0", "") THEN ListKey(<< CustomUpper, MruUniverse[2] >>)
        ELSE IF p = KeyPath("14.0", "") THEN ListKey(<< MruUniverse[12], MruUniverse[1] >>)
        ELSE IF p.container = "" THEN EmptyKey
        ELSE IF p.container = "Other" THEN ListKey(<< MruUniverse[1] >>)
        ELSE ListKey(<< MruUniverse[3], MruUniverse[1] >>) ]

\* At most two key paths refuse.
FaultChoices(paths) ==
    { f \in [ paths -> {"none", "open", "set"} ] :
        Cardinality({ p \in paths : f[p] # "none" }) <= 2 }

KeysInit ==
    /\ subkeys \in SubkeyLayouts
    /\ appKeys = SeededKeys(subkeys)
    /\ appKeysBefore = appKeys
    /\ keyFaults \in FaultChoices(DOMAIN appKeys)
    /\ keysOp = NoOp
    /\ keysCount = 0

KeysIdle ==
    /\ subkeys = [ v \in Range(OfficeVersions) |-> <<>> ]
    /\ appKeys = [ p \in { KeyPath(v, "") : v \in Range(OfficeVersions) } |-> EmptyKey ]
    /\ appKeysBefore = appKeys
    /\ keyFaults = [ p \in DOMAIN appKeys |-> "none" ]
    /\ keysOp = NoOp
    /\ keysCount = 0

\* update_mru_for_template(app_label, file_path), winreg at hand
UpdateMruForTemplate ==
    /\ keysCount < MaxMruOps
    /\ \E p \in { MruUniverse[1], MruUniverse[13] } :
         /\ appKeys' = update_mru_loop(appKeys, find_mru_paths(subkeys), 1, p, keyFaults)
         /\ keysOp' = [kind |-> "write", path |-> p, targets |-> {}]
    /\ appKeysBefore' = appKeys
    /\ keysCount' = keysCount + 1
    /\ UNCHANGED <<subkeys, keyFaults, classVars, mruVars, authorVars, runVars>>

\* _clear_mru_for_app(app_label, target_paths)
ClearMruForApp ==
    /\ keysCount < MaxMruOps
    /\ \E t \in { {MruUniverse[1]}, {CustomUpper, MruUniverse[12]} } :
         /\ appKeys' = clear_mru_loop(appKeys, find_mru_paths(subkeys), 1, t, keyFaults)
         /\ keysOp' = [kind |-> "rewrite", path |-> BlankText, targets |-> t]
    /\ appKeysBefore' = appKeys
    /\ keysCount' = keysCount + 1
    /\ UNCHANGED <<subkeys, keyFaults, classVars, mruVars, authorVars, runVars>>

KeysNext == UpdateMruForTemplate \/ ClearMruForApp

Init == ClassifyIdle /\ MruIdle /\ AuthorIdle /\ RunInit /\ KeysIdle

Next == RunNext

Spec == Init /\ [][Next]_vars

InitMru == ClassifyIdle /\ MruInit /\ AuthorIdle /\ RunIdle /\ KeysIdle

SpecMru == InitMru /\ [][MruNext]_vars

InitMruAny == ClassifyIdle /\ MruAnyInit /\ AuthorIdle /\ RunIdle /\ KeysIdle

SpecMruAny == InitMruAny /\ [][MruNext]_vars

InitClassify == ClassifyInit /\ MruIdle /\ AuthorIdle /\ RunIdle /\ KeysIdle

SpecClassify == InitClassify /\ [][ClassifyNext]_vars

InitAuthor == ClassifyIdle /\ MruIdle /\ AuthorInit /\ RunIdle /\ KeysIdle

SpecAuthor == InitAuthor /\ [][AuthorNext]_vars

InitKeys == ClassifyIdle /\ MruIdle /\ AuthorIdle /\ RunIdle /\ KeysInit

SpecKeys == InitKeys /\ [][KeysNext]_vars

(***************************************************************************)
(* Properties of the destination classifier (SpecClassify).               *)
(***************************************************************************)
\* The folder the documented table gives an extension that is already lower case.
FolderOfExtension(extension, p) ==
    CASE extension \in {".dotx", ".dotm"} -> p.CUSTOM_WORD
      [] extension \in {".potx", ".potm"} -> p.CUSTOM_PPT
      [] extension \in {".xltx", ".xltm"} -> p.CUSTOM_EXCEL
      [] extension = ".thmx" -> p.THEME
      [] OTHER -> None

\* The folder the documented table gives a base template.
FolderOfBaseStem(stem, p) ==
    IF stem \in {"Normal", "NormalEmail", "Blank"} THEN p.ROAMING ELSE p.EXCEL

\* C9: a file name that is one of the ten base names once its extension is
\* lower-cased is sent to the roaming folder (Normal, NormalEmail, Blank)
\* or to the Excel startup folder (Book, Sheet), by either classifier.
C9_BaseNameAnyExtensionCase ==
    Name(cname.stem, Lower(cname.ext)) \in BASE_TEMPLATE_NAMES =>
        /\ cresult.by_name # "unset" => cresult.by_name = FolderOfBaseStem(cname.stem, cpaths)
        /\ cresult.by_file # "unset" => cresult.by_file = FolderOfBaseStem(cname.stem, cpaths)

\* C10: a file name that is not one of the ten base names is sent where the
\* table sends its lower-cased extension (no destination for any other
\* extension), and every other non-base name with that extension is sent
\* to the same folder.
C10_NonBaseByExtensionOnly ==
    cname \notin BASE_TEMPLATE_NAMES =>
        /\ cresult.by_name # "unset" =>
             /\ cresult.by_name = FolderOfExtension(Lower(Suffix(cname)), cpaths)
             /\ \A n \in ClassifyNames \ BASE_TEMPLATE_NAMES :
                  Lower(Suffix(n)) = Lower(Suffix(cname))
                    => resolve_destination_for_name(n, cpaths) = cresult.by_name
        /\ cresult.by_file # "unset" =>
             cresult.by_file = FolderOfExtension(Lower(Suffix(cname)), cpaths)

\* C10: Report.DOTX has been classified by its lower-cased extension.
C10_Witness ==
    /\ cname = Name("Report", ".DOTX")
    /\ cpaths = PathsDistinct
    /\ cresult.by_name = "CustomWord"
    /\ cresult.by_file = "CustomWord"

C7_WritePutsPathFirstOnce ==
    lastOp.kind = "write" =>
        /\ Len(key.items) <= 10
        /\ ItemPath(key, 1) = lastOp.path
        /\ \A i \in DOMAIN key.items :
             key.items[i].num # 1
               => LowerText(extract_mru_path(key.items[i].value)) # LowerText(lastOp.path)

InstallTemplateStep == pc = "install_base" /\ idx <= Len(base_targets) /\ idx' = idx + 1

\* The step is one pass of the loop of copy_custom_templates.
CopyCustomStepTaken == pc = "install_custom" /\ Len(queue') < Len(queue)

\* Validation is on and the payload file n, no theme, fails the author check.
AuthorNotAllowed(n) ==
    /\ env.validation_enabled
    /\ n \in DOMAIN payload
    /\ Lower(Suffix(n)) # ".thmx"
    /\ ~ check_template_author(n, payload[n], DEFAULT_ALLOWED_TEMPLATE_AUTHORS,
                               env.validation_enabled).allowed

\* Nothing is copied, backed up or registered, and `blocked` grows by one.
BlockedOnly ==
    /\ files' = files
    /\ backups' = backups
    /\ registry' = registry
    /\ totals' = [totals EXCEPT !.blocked = @ + 1]

\* C1: with validation enabled, the pass over a payload file that is no
\* theme and whose author is not allowed, in the base flow and in the custom
\* flow, copies nothing, leaves the MRU lists as they were and adds exactly
\* one to the blocked counter.
C1_BlockedFileNeverCopied ==
    [][ /\ (InstallTemplateStep /\ AuthorNotAllowed(base_targets[idx].filename))
            => BlockedOnly
        /\ (CopyCustomStepTaken /\ queue[1] \notin BASE_TEMPLATE_NAMES
              /\ AuthorNotAllowed(queue[1]))
            => BlockedOnly ]_vars

\* C1: Sheet.xltm of another author was refused while the user's own
\* Sheet.xltm lies in the Excel startup folder.
C1_Witness ==
    /\ lastStep = Step("install_template", Name("Sheet", ".xltm"),
                       Path("XLSTART", Name("Sheet", ".xltm")), "blocked")
    /\ env.validation_enabled
    /\ payload[Name("Sheet", ".xltm")] = Evil
    /\ files[Path("XLSTART", Name("Sheet", ".xltm"))] = UserFile
    /\ totals.blocked = 2

C3_OverwriteIsBackedUp ==
    [][ ( /\ InstallTemplateStep \/ CopyCustomStepTaken
          /\ lastStep'.outcome = "copied"
          /\ lastStep'.dest \in DOMAIN files )
        => /\ BackupPath(lastStep'.dest, now) \in DOMAIN backups'
           /\ backups'[BackupPath(lastStep'.dest, now)] = files[lastStep'.dest] ]_vars

\* The canonical destination of each of the ten base templates.
CanonicalBasePaths ==
    { Path(Destinations[base_targets[i].role], base_targets[i].filename) :
        i \in DOMAIN base_targets }

\* C4: remove_installed_templates, when nothing is held (no I/O error),
\* backs up every base template present at its canonical destination and
\* leaves none of the ten there.
C4_RemoveInstalledClearsTheTen ==
    [][ (pc = "un_installed" /\ pc' = "un_custom" /\ held = {})
        => \A t \in CanonicalBasePaths :
             /\ t \notin DOMAIN files'
             /\ t \in DOMAIN files => BackupPath(t, now) \in DOMAIN backups' ]_vars

\* No main is running, and the last two runs were an install and then an
\* uninstall, neither stopped by the path check nor met by an OSError.
RoundTripDone ==
    /\ pc = "idle"
    /\ ~ env.fatal
    /\ Len(runs) >= 2
    /\ runs[Len(runs) - 1] = Run("install")
    /\ runs[Len(runs)] = Run("uninstall")

\* C5 as the specification words it: after the round trip no destination
\* folder holds a file under the name of any payload template.
C5_NoPayloadNameAnywhere ==
    RoundTripDone =>
        \A n \in TemplateFiles(payload), d \in DestinationValues(Destinations) :
            Path(d, n) \notin DOMAIN files

\* C5: after install then uninstall with no I/O failure, a payload template
\* that is no base template lies in no destination folder at all, and a
\* payload template that is a base template does not lie at its canonical
\* destination.
C5_RoundTripRemovesPayloadNames ==
    RoundTripDone =>
        /\ \A n \in TemplateFiles(payload) \ BASE_TEMPLATE_NAMES,
              d \in DestinationValues(Destinations) :
                Path(d, n) \notin DOMAIN files
        /\ \A t \in CanonicalBasePaths :
                t.name \in DOMAIN payload => t \notin DOMAIN files

\* C5: the round trip is over and Custom.dotx, which lay in the folder the
\* installer picks and in another one, is gone from both.
C5_Witness ==
    /\ RoundTripDone
    /\ Custom_dotx \in DOMAIN payload
    /\ Path("CustomWord", Custom_dotx) \in DOMAIN runStart.files
    /\ Path("CustomAlt", Custom_dotx) \in DOMAIN runStart.files
    /\ Path("CustomWord", Custom_dotx) \notin DOMAIN files
    /\ Path("CustomAlt", Custom_dotx) \notin DOMAIN files

\* No base template and no file named like a payload template lies in any
\* destination folder of f.
CleanStart(f) ==
    \A d \in DestinationValues(Destinations),
       n \in BASE_TEMPLATE_NAMES \cup TemplateFiles(payload) :
        Path(d, n) \notin DOMAIN f

\* No main is running and the last run was an uninstall that got past the path check.
UninstallOver ==
    /\ pc = "idle"
    /\ ~ env.fatal
    /\ runs # <<>>
    /\ runs[Len(runs)].kind = "uninstall"

\* The paths of key k that are none of the targets, ignoring case.
KeptPaths(k, targets) ==
    SelectSeq(ItemPaths(k), LAMBDA v : LowerText(v) \notin { LowerText(t) : t \in targets })

\* The paths the uninstaller clears from the lists of one application.
CleanupTargets(app_label) ==
    IF env.winreg
    THEN GroupedTargets(collect_mru_targets(payload, Destinations), app_label)
    ELSE {}

\* C6 as the specification words it: an uninstall started on folders without
\* base templates and payload-named files leaves every MRU list with the
\* entries it had.
C6_CleanUninstallKeepsMru ==
    (UninstallOver /\ CleanStart(runStart.files)) =>
        \A a \in Apps : \A k \in DOMAIN registry[a] :
            ItemPaths(registry[a][k]) = ItemPaths(runStart.registry[a][k])

\* C6: an uninstall started on folders without base templates and
\* payload-named files deletes nothing, backs up nothing and records no
\* failure, and leaves every MRU list with the entries it had less those
\* that name a cleanup target; an uninstall that follows an uninstall, both
\* without I/O failure, leaves folders, backups and MRU lists as it found them.
C6_UninstallIdempotent ==
    /\ (UninstallOver /\ CleanStart(runStart.files)) =>
          /\ files = runStart.files
          /\ backups = runStart.backups
          /\ failures = <<>>
          /\ ~ runs[Len(runs)].oserror
          /\ \A a \in Apps : \A k \in DOMAIN registry[a] :
                ItemPaths(registry[a][k])
                    = KeptPaths(runStart.registry[a][k], CleanupTargets(a))
    /\ ( /\ UninstallOver
         /\ Len(runs) >= 2
         /\ runs[Len(runs) - 1] = Run("uninstall")
         /\ runs[Len(runs)] = Run("uninstall") ) =>
          /\ files = runStart.files
          /\ backups = runStart.backups
          /\ registry = runStart.registry

\* C6: an uninstall that began on empty folders is over; it touched no
\* file and took the entry for a payload template off the Word list.
C6_Witness ==
    /\ UninstallOver
    /\ CleanStart(runStart.files)
    /\ files = runStart.files
    /\ backups = runStart.backups
    /\ ItemPaths(runStart.registry.WORD[KeyPath("16.0", "")]) = << CustomUpper, MruUniverse[2] >>
    /\ ItemPaths(registry.WORD[KeyPath("16.0", "")]) = << MruUniverse[2] >>

(***************************************************************************)
(* Properties of the author check (SpecAuthor).                            *)
(***************************************************************************)
\* The single existing file that has been checked.
FileChecked == atarget.kind = "file" /\ aresult # <<>>

\* The allowlist in force: the default one when none is given.
AllowlistInForce ==
    normalize_allowed_authors(IF aallowed = <<>> THEN DEFAULT_ALLOWED_TEMPLATE_AUTHORS
                              ELSE aallowed)

\* C12: for an existing non-theme file checked with validation enabled, an
\* unreadable archive and a missing docProps/core.xml each give allowed
\* false with error true, while core metadata with no creator element or
\* an empty creator gives allowed false with error false.
C12_AuthorFailureKinds ==
    ( /\ FileChecked
      /\ avalidation
      /\ Lower(Suffix(atarget.name)) # ".thmx" ) =>
        /\ (~ atarget.archive.zip \/ ~ atarget.archive.core) =>
             (~ aresult[1].allowed /\ aresult[1].error)
        /\ (atarget.archive.zip /\ atarget.archive.core /\ atarget.archive.creator = "") =>
             (~ aresult[1].allowed /\ ~ aresult[1].error)

\* C13: an existing single file whose extension is .thmx in any letter case
\* is allowed without error, whatever validation_enabled is and whatever
\* the file holds.
C13_ThemeAlwaysAllowed ==
    (FileChecked /\ Lower(Suffix(atarget.name)) = ".thmx") =>
        (aresult[1].allowed /\ ~ aresult[1].error)

\* C13: Report.THMX, which is no readable archive, was checked with
\* validation enabled and allowed.
C13_Witness ==
    /\ FileChecked
    /\ atarget.name = Name("Report", ".THMX")
    /\ ~ atarget.archive.zip
    /\ avalidation
    /\ aresult[1].allowed

\* The author _extract_author reads from the checked file is not empty.
AuthorPresent ==
    /\ atarget.archive.zip
    /\ atarget.archive.core
    /\ StripStr(atarget.archive.creator) # ""

\* The author equals an allowlist entry when letter case is ignored.
AuthorOnAllowlist ==
    \E i \in DOMAIN AllowlistInForce :
        Lower(StripStr(atarget.archive.creator)) = Lower(AllowlistInForce[i])

\* C14 as first stated: for any file with a non-empty author and validation
\* enabled, allowed is true exactly when the author is on the allowlist
\* ignoring case, error is false, and the author list holds that author.
C14_AnyFileMatchedExactly ==
    (FileChecked /\ avalidation /\ AuthorPresent) =>
        /\ aresult[1].allowed <=> AuthorOnAllowlist
        /\ ~ aresult[1].error
        /\ aresult[1].authors = << StripStr(atarget.archive.creator) >>

\* C14: for a file that is no theme, with a non-empty author and validation
\* enabled, allowed is true exactly when the author equals some allowlist
\* entry ignoring letter case (the whole string, no substring), error is
\* false, and the author list holds that one author.
C14_NonThemeMatchedExactly ==
    (FileChecked /\ avalidation /\ AuthorPresent /\ Lower(Suffix(atarget.name)) # ".thmx") =>
        /\ aresult[1].allowed <=> AuthorOnAllowlist
        /\ ~ aresult[1].error
        /\ aresult[1].authors = << StripStr(atarget.archive.creator) >>

\* C14: Report.dotx by WWW.GRADA.CC was allowed against the default list.
C14_Witness ==
    /\ FileChecked
    /\ atarget.name = Name("Report", ".dotx")
    /\ atarget.archive.creator = "WWW.GRADA.CC"
    /\ aallowed = DEFAULT_ALLOWED_TEMPLATE_AUTHORS
    /\ avalidation
    /\ aresult[1] = AuthorCheckResult(TRUE, <<"WWW.GRADA.CC">>, FALSE)

\* The files of a folder that contribute an author to a directory scan.
AuthorBearing(folder) ==
    { n \in TemplateFiles(folder) :
        Lower(Suffix(n)) # ".thmx" /\ extract_author(folder[n]).author # "" }

\* How often author a occurs in the list.
Occurrences(authors, a) == Cardinality({ i \in DOMAIN authors : authors[i] = a })

\* C15: the check of an existing directory is allowed without error,
\* whatever its files hold and whatever validation_enabled is; the authors
\* listed are those of its non-theme template files, theme files
\* contributing none; and --check-author on a directory, once the payload
\* path check of main has passed, prints TRUE and exits with code 0.
C15_DirectoryScanNeverGates ==
    /\ (atarget.kind = "dir" /\ aresult # <<>>) =>
         /\ aresult[1].allowed
         /\ ~ aresult[1].error
         /\ \A a \in AuthorCreators \cup Range(aresult[1].authors) :
              Occurrences(aresult[1].authors, a) =
                Cardinality({ n \in AuthorBearing(atarget.folder) :
                                extract_author(atarget.folder[n]).author = a })
    /\ (atarget.kind = "dir" /\ acli # <<>> /\ ~ acli[1].fatal) =>
         (acli[1].printed = "TRUE" /\ acli[1].exit = 0)

\* C15: a folder with an unreadable template, a template by an author off
\* the allowlist, one without core.xml and a theme by an allowed author
\* was scanned with validation enabled: allowed, and only the one author
\* is listed.
C15_Witness ==
    /\ atarget.kind = "dir"
    /\ atarget.folder = FolderBad
    /\ avalidation
    /\ aresult # <<>>
    /\ aresult[1] = AuthorCheckResult(TRUE, <<"evil.com">>, FALSE)
    /\ acli # <<>>
    /\ acli[1].printed = "TRUE"

(***************************************************************************)
(* Failures of the file system during a run (Spec).                        *)
(***************************************************************************)
\* The step is a call of install_template, whether it returns or raises.
InstallTemplateCalled ==
    pc = "install_base" /\ idx <= Len(base_targets) /\ (idx' # idx \/ pc' # pc)

\* The backup of an existing file of this folder fails: its Backups folder
\* cannot be made, or takes no new file.
BackupFails(dir) == dir \in env.faults.no_backups \cup env.faults.backup_full

\* C16: a failure while making a backup never aborts the step that
\* triggered it: install_template still copies the file and the loop goes
\* on to the next tuple; remove_installed_templates still deletes the file.
C16_BackupFailureNeverAborts ==
    [][ /\ InstallTemplateCalled =>
             LET t == base_targets[idx]
                 destination == Path(Destinations[t.role], t.filename)
             IN  ( /\ install_template_check(payload, t.filename,
                          DEFAULT_ALLOWED_TEMPLATE_AUTHORS, env.validation_enabled) = "allowed"
                   /\ Exists(files, destination)
                   /\ BackupFails(destination.dir)
                   /\ ~ ensure_directory_raises(destination.dir, env.faults)
                   /\ destination \notin held ) =>
                     /\ files'[destination] = payload[t.filename]
                     /\ pc' = "install_base"
                     /\ idx' = idx + 1
        /\ (pc = "un_installed" /\ pc' = "un_custom") =>
             \A target \in Range(installed_targets(Destinations)) :
                 ( /\ Exists(files, target)
                   /\ BackupFails(target.dir)
                   /\ target \notin held ) => ~ Exists(files', target)
      ]_vars

\* C17: an I/O failure while one file is processed (its destination folder
\* cannot be made, the copy or the delete fails) never aborts the batch:
\* the install counts it as an error and goes on to the next file, the
\* uninstall records the file among its failures and goes on to its next
\* step.  (Runs in which a backup fails are left to C16.)
C17_IoFailureNeverAbortsBatch ==
    [][ /\ (InstallTemplateCalled /\ env.faults.no_backups = {}) =>
             LET t == base_targets[idx]
                 destination == Path(Destinations[t.role], t.filename)
                 failed ==
                     \/ ensure_directory_raises(destination.dir, env.faults)
                     \/ /\ install_template_check(payload, t.filename,
                               DEFAULT_ALLOWED_TEMPLATE_AUTHORS, env.validation_enabled) = "allowed"
                        /\ destination \in held
             IN  /\ pc' = "install_base"
                 /\ idx' = idx + 1
                 /\ failed => totals'.errors = totals.errors + 1
        /\ CopyCustomStepTaken =>
             LET filename == queue[1]
                 root == custom_destination_root(Lower(Suffix(filename)), Destinations)
                 failed ==
                     /\ copy_custom_check(payload, filename, Destinations,
                            DEFAULT_ALLOWED_TEMPLATE_AUTHORS, env.validation_enabled) = "allowed"
                     /\ \/ ensure_directory_raises(root, env.faults)
                        \/ Path(root, filename) \in held
             IN  /\ pc' = "install_custom"
                 /\ failed => totals'.errors = totals.errors + 1
        /\ (pc = "un_installed" /\ pc' # pc) =>
             /\ pc' = "un_custom"
             /\ \A target \in Range(installed_targets(Destinations)) :
                    (Exists(files, target) /\ target \in held) => target \in Range(failures')
        /\ (pc = "un_custom" /\ pc' # pc) => pc' = "un_mru"
      ]_vars

(***************************************************************************)
(* The Backups folders (Spec).                                             *)
(***************************************************************************)
\* C18 as first stated: once a backup file exists, no later step of any
\* install or uninstall run removes it or changes its content.
C18_BackupNeverOverwritten ==
    [][ \A bk \in DOMAIN backups :
            bk \in DOMAIN backups' /\ backups'[bk] = backups[bk] ]_vars

\* C18: a backup file is never removed, and its content is never changed
\* once the minute of its time stamp is over; within that minute a second
\* backup of the same file of the same folder takes its place.
C18_BackupKeptAfterItsMinute ==
    [][ \A bk \in DOMAIN backups :
            /\ bk \in DOMAIN backups'
            /\ bk.stamp # now => backups'[bk] = backups[bk] ]_vars

\* C18: the user's Normal.dotx was backed up in minute 0 and the template
\* that replaced it in minute 1; both backups are there.
C18_Witness ==
    /\ now = 1
    /\ BackupPath(Path("Roaming", Normal_dotx), 0) \in DOMAIN backups
    /\ BackupPath(Path("Roaming", Normal_dotx), 1) \in DOMAIN backups
    /\ backups[BackupPath(Path("Roaming", Normal_dotx), 0)] = UserFile
    /\ backups[BackupPath(Path("Roaming", Normal_dotx), 1)] = Good

(***************************************************************************)
(* The fatal payload-path error (Spec).                                    *)
(***************************************************************************)
\* C19: when a run of the installer or of the uninstaller ends with the
\* fatal payload-path error, the process exits with code 1 and the folders,
\* their backups and the MRU registry values are what they were when the
\* run began.
C19_FatalErrorMutatesNothing ==
    lastStep.op = "exit_with_error" =>
        /\ exitCode = 1
        /\ pc = "idle"
        /\ files = runStart.files
        /\ backups = runStart.backups
        /\ registry = runStart.registry

\* C19: after an install that replaced and backed up the user's template,
\* an uninstall was started from the wrong folder and ended with the error.
C19_Witness ==
    /\ Len(runs) = 2
    /\ runs[1].kind = "install"
    /\ runs[2].kind = "uninstall"
    /\ lastStep.op = "exit_with_error"
    /\ Path("Roaming", Normal_dotx) \in DOMAIN files
    /\ files[Path("Roaming", Normal_dotx)] = Good
    /\ DOMAIN backups # {}

\* C19: a first install ended with the error.
C19_WitnessInstall ==
    /\ Len(runs) = 1
    /\ runs[1].kind = "install"
    /\ lastStep.op = "exit_with_error"
    /\ exitCode = 1
    /\ files = FilesInstalled

(***************************************************************************)
(* Runs without a registry (Spec).                                         *)
(***************************************************************************)
\* The last run was of this kind, ran to its end, met no refusal of the
\* file system and caught no OSError.
RunOverUndisturbed(kind) ==
    /\ pc = "idle"
    /\ Len(runs) >= 1
    /\ runs[Len(runs)].kind = kind
    /\ lastStep.op = (IF kind = "install" THEN "install_done" ELSE "uninstall_done")
    /\ ~ runs[Len(runs)].oserror
    /\ env.faults = NoFaults

\* The base tuples whose check by install_template gave `outcome`.
BaseTuples(outcome) ==
    { i \in DOMAIN base_targets :
        install_template_check(payload, base_targets[i].filename,
            DEFAULT_ALLOWED_TEMPLATE_AUTHORS, env.validation_enabled) = outcome }

\* The payload files whose check by copy_custom_templates gave `outcome`.
CustomFiles(outcome) ==
    { n \in TemplateFiles(payload) :
        copy_custom_check(payload, n, Destinations,
            DEFAULT_ALLOWED_TEMPLATE_AUTHORS, env.validation_enabled) = outcome }

\* Where an undisturbed install puts the payload, whatever the registry.
InstalledPaths ==
    { Path(Destinations[base_targets[i].role], base_targets[i].filename) :
        i \in BaseTuples("allowed") }
    \cup { Path(custom_destination_root(Lower(Suffix(n)), Destinations), n) :
             n \in CustomFiles("allowed") }

\* What an undisturbed uninstall deletes, whatever the registry.
UninstalledPaths ==
    { Path(env.paths.ROAMING, n) : n \in Range(WordBaseNames) }
    \cup Range(installed_targets(Destinations))
    \cup { Path(d, n) : d \in DestinationValues(Destinations),
                        n \in TemplateFiles(payload) \ BASE_TEMPLATE_NAMES }

\* C20: without a registry the MRU values are never touched and nothing is
\* raised, and the files and counters an undisturbed run ends with are
\* the ones fixed by the payload and the folders alone, the same with and
\* without a registry: the install has copied every allowed template to
\* its destination and counted it, the uninstall has deleted every target.
C20_RegistryUnavailableSkipsMru ==
    /\ ~ env.winreg => registry = runStart.registry
    /\ RunOverUndisturbed("install") =>
         /\ exitCode = 0
         /\ DOMAIN files = DOMAIN runStart.files \cup InstalledPaths
         /\ \A q \in DOMAIN files :
                files[q] = IF q \in InstalledPaths THEN payload[q.name] ELSE runStart.files[q]
         /\ totals = [ files |-> Cardinality(InstalledPaths),
                       errors |-> Cardinality(BaseTuples("missing")),
                       blocked |-> Cardinality(BaseTuples("blocked"))
                                     + Cardinality(CustomFiles("blocked")) ]
    /\ RunOverUndisturbed("uninstall") =>
         /\ exitCode = 0
         /\ DOMAIN files = DOMAIN runStart.files \ UninstalledPaths
         /\ \A q \in DOMAIN files : files[q] = runStart.files[q]
         /\ failures = <<>>

\* C20: without a registry an install copied the three templates of the
\* payload, Custom.dotx among them, and the MRU lists are as they were.
C20_Witness ==
    /\ ~ env.winreg
    /\ RunOverUndisturbed("install")
    /\ totals.files = 3
    /\ Path("CustomWord", Custom_dotx) \in DOMAIN files
    /\ files[Path("CustomWord", Custom_dotx)] = Good
    /\ registry = UsedRegistry

\* C20: without a registry an uninstall that followed the install deleted
\* the templates again.
C20_WitnessUninstall ==
    /\ ~ env.winreg
    /\ Len(runs) = 2
    /\ runs[1].kind = "install"
    /\ RunOverUndisturbed("uninstall")
    /\ Path("CustomWord", Custom_dotx) \notin DOMAIN files
    /\ registry = UsedRegistry

(***************************************************************************)
(* The order of an install run and the front of the MRU lists (Spec).      *)
(***************************************************************************)
\* The base tuples are processed one by one in their listed order, no
\* payload file is processed as a custom template before the tenth, and
\* a payload file of a base name is passed over by the custom loop.
BaseBeforeCustom ==
    /\ InstallTemplateStep =>
         /\ lastStep'.op = "install_template"
         /\ lastStep'.name = base_targets[idx].filename
         /\ queue = <<>>
    /\ CopyCustomStepTaken =>
         /\ idx = Len(base_targets) + 1
         /\ lastStep'.name \in BASE_TEMPLATE_NAMES => lastStep'.outcome = "skipped_base"

\* The last run was an install and it has ended, by its return or by an
\* exception nothing caught.
InstallRunEnded ==
    /\ pc = "idle"
    /\ Len(runs) >= 1
    /\ runs[Len(runs)].kind = "install"
    /\ lastStep.op \in {"install_done", "install_template"}

\* Item 1 of every MRU list of the application is this path.
FrontOfLists(app_label, path) ==
    \A k \in DOMAIN registry[app_label] : ItemPath(registry[app_label][k], 1) = path

\* C21 as the specification words it: the ten base tuples are processed
\* in their listed order before any custom template, and when the install
\* run ends Item 1 of each application's MRU lists is the destination of
\* the last template of that application the run copied.
C21_FrontIsLastCopied ==
    /\ [][BaseBeforeCustom]_vars
    /\ [](InstallRunEnded =>
            \A a \in Apps : lastCopied[a] # BlankText => FrontOfLists(a, lastCopied[a]))

\* C21: the ten base tuples are processed in their listed order before any
\* custom template; when the install run ends with a registry at hand,
\* Item 1 of each application's MRU lists is the destination of the last
\* custom (non-base, non-theme) template of that application the run
\* copied, and the lists of an application of which the run copied no
\* custom template are as they were when the run started.
C21_FrontIsLastCustomCopied ==
    /\ [][BaseBeforeCustom]_vars
    /\ [](InstallRunEnded =>
            \A a \in Apps :
               IF env.winreg /\ lastCopied[a] # BlankText /\ should_update_mru(lastCopied[a])
               THEN FrontOfLists(a, lastCopied[a])
               ELSE registry[a] = runStart.registry[a])

\* C21: an install run has ended that copied Normal.dotx and then the two
\* custom Word templates, Report.dotx after Custom.dotx, and Item 1 of
\* the Word lists is the destination of Report.dotx, Item 2 that of
\* Custom.dotx.
C21_Witness ==
    /\ InstallRunEnded
    /\ lastStep.op = "install_done"
    /\ payload = PayloadPair
    /\ totals.files = 3
    /\ lastCopied.WORD = Path("CustomWord", Name("Report", ".dotx"))
    /\ FrontOfLists("WORD", Path("CustomWord", Name("Report", ".dotx")))
    /\ ItemPath(registry.WORD[KeyPath("16.0", "")], 2) = Path("CustomWord", Custom_dotx)
    /\ lastCopied.EXCEL = BlankText
    /\ registry.EXCEL = runStart.registry.EXCEL

(***************************************************************************)
(* What a write leaves under the key (SpecMruAny, SpecMru).                *)
(***************************************************************************)
\* The list the last write built from the key it found.
WrittenList == NewEntries(prevKey, Strip(lastOp.path))

\* C22: after a write of a list of K entries the Item values and the Item
\* Metadata values under the key are exactly those numbered 1..K: nothing
\* of the list that was there before is left over.
C22_WriteReplacesPriorValues ==
    lastOp.kind = "write" =>
        /\ ItemNums(key) = 1..Len(WrittenList)
        /\ Len(key.items) = Len(WrittenList)
        /\ DOMAIN key.meta = 1..Len(WrittenList)

(***************************************************************************)
(* What an exclusion rewrite leaves under the key (SpecMruAny).            *)
(***************************************************************************)
\* The path of this Item value is, ignoring case, one of the targets.
IsTarget(item, targets) ==
    /\ extract_mru_path(item.value) # BlankText
    /\ \E t \in targets : LowerText(t) = LowerText(extract_mru_path(item.value))

\* The entries of the key the last operation found that are no targets.
Survivors == { i \in DOMAIN prevKey.items : ~ IsTarget(prevKey.items[i], lastOp.targets) }

\* The number a survivor gets: one more than the survivors numbered below it.
NewNumber(i) ==
    1 + Cardinality({ j \in Survivors : prevKey.items[j].num < prevKey.items[i].num })

\* C23: after an exclusion rewrite with target set T no Item value has a
\* path equal, ignoring case, to a member of T; every entry whose path is
\* not in T is still there with its own value and its own metadata (none,
\* if it had none); the survivors are numbered 1..K without gaps, in the
\* order of their original item numbers.
C23_RewriteDropsTargetsKeepsRest ==
    lastOp.kind = "rewrite" =>
        /\ \A i \in DOMAIN key.items : ~ IsTarget(key.items[i], lastOp.targets)
        /\ Len(key.items) = Cardinality(Survivors)
        /\ \A n \in DOMAIN key.items : key.items[n].num = n
        /\ DOMAIN key.meta \subseteq DOMAIN key.items
        /\ \A i \in Survivors :
             /\ key.items[NewNumber(i)].value = prevKey.items[i].value
             /\ IF prevKey.items[i].num \in DOMAIN prevKey.meta
                THEN /\ NewNumber(i) \in DOMAIN key.meta
                     /\ key.meta[NewNumber(i)] = prevKey.meta[prevKey.items[i].num]
                ELSE NewNumber(i) \notin DOMAIN key.meta

\* C23: a rewrite has dropped Item 1, spelled otherwise than its target,
\* and the entries behind it have moved up one number with their metadata.
C23_Witness ==
    /\ lastOp.kind = "rewrite"
    /\ CustomUpper \in lastOp.targets
    /\ ItemPath(prevKey, 1) = MruUniverse[1]
    /\ Len(prevKey.items) >= 3
    /\ Len(key.items) = Len(prevKey.items) - 1
    /\ key.items[1] = [num |-> 1, value |-> prevKey.items[2].value]
    /\ 2 \in DOMAIN prevKey.meta
    /\ key.meta[1] = prevKey.meta[2]
    /\ key.meta[2] = prevKey.meta[3]

(***************************************************************************)
(* What the install registers, the uninstall clears (Spec).                *)
(***************************************************************************)
\* The targets clear_mru_entries_for_payload builds for the application.
ClearTargets(app_label) == GroupedTargets(collect_mru_targets(payload, Destinations), app_label)

\* The step belongs to an install run and changes this MRU list.
InstallWrites(app_label, k) ==
    /\ pc \in {"install_base", "install_custom"}
    /\ registry'[app_label][k] # registry[app_label][k]

\* The paths of the key's Item values, lower-cased.
LowerPaths(k) == { LowerText(ItemPaths(k)[i]) : i \in DOMAIN k.items }

\* An install run and then an uninstall run have ended, both by their return.
InstallThenUninstall ==
    /\ pc = "idle"
    /\ Len(runs) = 2
    /\ runs[1].kind = "install"
    /\ runs[2].kind = "uninstall"
    /\ lastStep.op = "uninstall_done"

\* C24: whenever a step of an install run changes an MRU list of an
\* application, the path it has put first is the destination it copied to
\* and is one of the targets clear_mru_entries_for_payload builds for that
\* application from the same payload and destinations; and after an
\* install run followed by an uninstall run that reached its end, with a
\* registry at hand, no MRU list holds a target path in any spelling,
\* hence none the install wrote.
C24_InstallWritesOnlyCleanupTargets ==
    /\ [][ \A a \in Apps : \A k \in DOMAIN registry[a] :
             InstallWrites(a, k) =>
                /\ ItemPath(registry'[a][k], 1) = lastStep'.dest
                /\ lastStep'.dest \in ClearTargets(a) ]_vars
    /\ []( (InstallThenUninstall /\ env.winreg) =>
             \A a \in Apps : \A k \in DOMAIN registry[a] :
                LowerPaths(registry[a][k]) \cap { LowerText(t) : t \in ClearTargets(a) } = {} )

\* C24: the install put the destination of Custom.dotx first in the Word
\* lists, the uninstall that followed found it there and took it out, and
\* left the entry that was behind it.
C24_Witness ==
    /\ InstallThenUninstall
    /\ env.winreg
    /\ payload = PayloadFull
    /\ ItemPath(runStart.registry.WORD[KeyPath("16.0", "")], 1) = Path("CustomWord", Custom_dotx)
    /\ ItemPath(runStart.registry.WORD[KeyPath("15.0", "")], 1) = Path("CustomWord", Custom_dotx)
    /\ LowerText(Path("CustomWord", Custom_dotx)) \notin LowerPaths(registry.WORD[KeyPath("16.0", "")])
    /\ ItemPath(registry.WORD[KeyPath("16.0", "")], 1) = MruUniverse[2]
    /\ registry.WORD[KeyPath("15.0", "")] = EmptyKey

(***************************************************************************)
(* Key paths that refuse (SpecKeys).                                       *)
(***************************************************************************)
\* The key paths the operations are to reach: the File MRU of each of the
\* four versions and of each ADAL_/LIVEID_ subkey.
DiscoveredPaths ==
    { p \in DOMAIN appKeys : p.container = "" \/ IsAccountContainer(p.container) }

\* What the last operation gives the key of this path when applied to it alone.
Alone(p) ==
    IF keysOp.kind = "write" THEN write_mru_entry(appKeysBefore[p], keysOp.path)
    ELSE rewrite_mru_excluding(appKeysBefore[p], keysOp.targets)

\* C25: an MRU write or exclusion rewrite for an application reaches every
\* discovered key path: whatever key paths refuse, each key path that
\* does not refuse ends as the operation alone would leave it, and a key
\* that is no File MRU of a version or of an ADAL_/LIVEID_ subkey is left
\* as it was.
C25_EachKeyPathIndependently ==
    keysOp.kind \in {"write", "rewrite"} =>
        /\ \A p \in DiscoveredPaths : keyFaults[p] = "none" => appKeys[p] = Alone(p)
        /\ \A p \in DOMAIN appKeys \ DiscoveredPaths : appKeys[p] = appKeysBefore[p]

\* C25: SetValueEx raised on the first key path of the loop, the File MRU
\* of an account container, CreateKeyEx on the second, and the write went
\* on to put the path first in the lists of the versions behind them.
C25_Witness ==
    /\ keysOp.kind = "write"
    /\ find_mru_paths(subkeys)[1] = KeyPath("16.0", "ADAL_1")
    /\ keyFaults[KeyPath("16.0", "ADAL_1")] = "set"
    /\ keyFaults[KeyPath("16.0", "")] = "open"
    /\ appKeys[KeyPath("16.0", "")] = appKeysBefore[KeyPath("16.0", "")]
    /\ appKeysBefore[KeyPath("12.0", "")] = EmptyKey
    /\ ItemPath(appKeys[KeyPath("12.0", "")], 1) = keysOp.path
    /\ ItemPath(appKeys[KeyPath("14.0", "")], 1) = keysOp.path
    /\ appKeys[KeyPath("16.0", "Other")] = appKeysBefore[KeyPath("16.0", "Other")]

(***************************************************************************)
(* Two backups of one file within a minute (Spec).                         *)
(***************************************************************************)
\* The backup files of this target in the Backups folder beside it.
BackupsOf(b, target) == { bk \in DOMAIN b : bk.dir = target.dir /\ bk.name = target.name }

\* The step calls backup_existing for this target, which exists, nothing
\* refuses the copy, and a call of this minute has left its backup already.
SecondBackupCall(target) ==
    /\ Exists(files, target)
    /\ target.dir \notin env.faults.no_backups \cup env.faults.backup_full
    /\ BackupPath(target, now) \in DOMAIN backups
    /\ \/ /\ InstallTemplateStep
          /\ target = Path(Destinations[base_targets[idx].role], base_targets[idx].filename)
          /\ lastStep'.outcome \in {"copied", "error"}
       \/ /\ pc = "un_installed"
          /\ pc' = "un_custom"
          /\ target \in Range(installed_targets(Destinations))

\* C26: a call of backup_existing for an existing target, in a minute in
\* which a call for the same target has left a backup, adds no backup
\* file: the target has one backup file of that minute, not two, holding
\* what the target held at the later call.
C26_SameMinuteOneBackup ==
    [][ \A target \in DOMAIN files :
          SecondBackupCall(target) =>
             /\ BackupsOf(backups', target) = BackupsOf(backups, target)
             /\ Cardinality({ bk \in BackupsOf(backups', target) : bk.stamp = now }) = 1
             /\ backups'[BackupPath(target, now)] = files[target] ]_vars

\* C26: two installs within minute 0 have each backed up Roaming\Normal.dotx,
\* the user's file and then the template that replaced it, and the Backups
\* folder holds one backup of it, the later one.
C26_Witness ==
    /\ now = 0
    /\ Len(runs) = 2
    /\ runs[1].kind = "install"
    /\ runs[2].kind = "install"
    /\ Exists(runStart.files, Path("Roaming", Normal_dotx))
    /\ runStart.files[Path("Roaming", Normal_dotx)] = Good
    /\ BackupPath(Path("Roaming", Normal_dotx), 0) \in DOMAIN runStart.backups
    /\ runStart.backups[BackupPath(Path("Roaming", Normal_dotx), 0)] = UserFile
    /\ lastStep = Step("install_template", Normal_dotx, Path("Roaming", Normal_dotx), "copied")
    /\ BackupsOf(backups, Path("Roaming", Normal_dotx))
         = { BackupPath(Path("Roaming", Normal_dotx), 0) }
    /\ backups[BackupPath(Path("Roaming", Normal_dotx), 0)] = Good

(***************************************************************************)
(* The counters of an install run (Spec).                                  *)
(***************************************************************************)
\* files + errors + blocked
Counted(t) == t.files + t.errors + t.blocked

\* Exactly one of the three counters grows, by one.
OneCounterMore ==
    /\ Counted(totals') = Counted(totals) + 1
    /\ totals'.files \in {totals.files, totals.files + 1}
    /\ totals'.errors \in {totals.errors, totals.errors + 1}
    /\ totals'.blocked \in {totals.blocked, totals.blocked + 1}

\* The payload's template files that carry no base name.
NonBasePayloadFiles == TemplateFiles(payload) \ BASE_TEMPLATE_NAMES

\* C27: in an install run each pass over a base tuple and each pass of the
\* custom loop over a payload template file of no base name adds one to
\* exactly one of files, errors, blocked (to errors when the source of a
\* base tuple is absent); a pass of the custom loop over a file of a base
\* name adds nothing; and when the run completes files + errors + blocked
\* is 10 plus the number of payload template files of no base name.
C27_EveryTemplateCountedOnce ==
    /\ [][ /\ InstallTemplateStep =>
                /\ OneCounterMore
                /\ base_targets[idx].filename \notin DOMAIN payload
                      => totals'.errors = totals.errors + 1
           /\ CopyCustomStepTaken =>
                IF queue[1] \in BASE_TEMPLATE_NAMES THEN totals' = totals ELSE OneCounterMore
         ]_vars
    /\ []( (pc = "idle" /\ lastStep.op = "install_done") =>
             Counted(totals) = Len(base_targets) + Cardinality(NonBasePayloadFiles) )

\* C27: an install of the payload with two blocked base templates and one
\* allowed custom template has completed: eight base tuples had no source,
\* two were blocked, one file was copied, eleven in all.
C27_Witness ==
    /\ pc = "idle"
    /\ lastStep.op = "install_done"
    /\ payload = PayloadBlocked
    /\ env.validation_enabled
    /\ Cardinality(NonBasePayloadFiles) = 1
    /\ totals = [files |-> 1, errors |-> 8, blocked |-> 2]

(***************************************************************************)
(* What an uninstall run deletes (Spec).                                   *)
(***************************************************************************)
\* The step is one of the steps of an uninstall run.
UninstallStep == pc \in {"un_normal", "un_installed", "un_custom", "un_mru", "un_normal_again"}

\* The files the step deletes.
Deleted == DOMAIN files \ DOMAIN files'

\* C28: a step of an uninstall run deletes a base template from its
\* destination only if the Backups folder beside it then holds a copy of
\* the deleted file that was not there when the run started.
C28_BaseDeletedOnlyAfterBackup ==
    [][ UninstallStep =>
          \A t \in Deleted \cap CanonicalBasePaths :
             \E bk \in BackupsOf(backups', t) :
                /\ backups'[bk] = files[t]
                /\ bk \in DOMAIN runStart.backups => runStart.backups[bk] # backups'[bk] ]_vars

(***************************************************************************)
(* The metadata a write leaves beside the items (SpecMru).                 *)
(***************************************************************************)
\* C29: after a write, for every index i it wrote, Item Metadata i tells
\* of the template of Item i: its id and its path are the extracted path
\* of Item i and its name is the file stem of that path.
C29_MetadataDescribesItsItem ==
    lastOp.kind = "write" =>
        \A i \in 1..Len(WrittenList) :
           /\ i \in DOMAIN key.meta
           /\ key.meta[i].id = ItemPath(key, i)
           /\ key.meta[i].du = ItemPath(key, i)
           /\ key.meta[i].nm = ItemPath(key, i).name.stem

(***************************************************************************)
(* What an uninstall run leaves alone (Spec).                              *)
(***************************************************************************)
\* The step deletes only files of a destination folder that bear a base
\* template name or the name of a template file of the payload, creates no
\* file and changes none outside the Backups folders.
DeletesOnlyInstalledNames ==
    /\ \A p \in Deleted :
         /\ p.name \in BASE_TEMPLATE_NAMES \cup TemplateFiles(payload)
         /\ p.dir \in DestinationValues(Destinations)
    /\ DOMAIN files' \subseteq DOMAIN files
    /\ \A p \in DOMAIN files' : files'[p] = files[p]

\* C30 as it is worded: a step of an uninstall run deletes only files
\* named like a base template or like a template file of the payload, and
\* leaves every other file of the destination folders and every file
\* under a Backups folder in place and unchanged.
C30_UninstallTouchesNothingElse ==
    [][ UninstallStep =>
          /\ DeletesOnlyInstalledNames
          /\ \A bk \in DOMAIN backups :
               bk \in DOMAIN backups' /\ backups'[bk] = backups[bk] ]_vars

\* C30: a step of an uninstall run deletes only files named like a base
\* template or like a template file of the payload and leaves every other
\* file of the destination folders in place and unchanged; it deletes no
\* file under a Backups folder, and changes one only by backing up, in
\* the minute of its time stamp, the file of its name that the step
\* deletes.
C30_UninstallFrame ==
    [][ UninstallStep =>
          /\ DeletesOnlyInstalledNames
          /\ \A bk \in DOMAIN backups :
               /\ bk \in DOMAIN backups'
               /\ backups'[bk] # backups[bk] =>
                    /\ bk.stamp = now
                    /\ Path(bk.dir, bk.name) \in Deleted \cap CanonicalBasePaths
                    /\ backups'[bk] = files[Path(bk.dir, bk.name)] ]_vars

\* C30: an uninstall has ended in folders that held the user's files under
\* payload names and others: the copy of Custom.dotx in another custom
\* folder and the base templates at their destinations are gone, the
\* unrelated Other.dotx and the Book.xltx outside its destination are as
\* they were.
C30_Witness ==
    /\ pc = "idle"
    /\ lastStep.op = "uninstall_done"
    /\ runStart.files = FilesStray
    /\ payload = PayloadFull
    /\ DOMAIN files = { Path("CustomWord", Name("Other", ".dotx")), Path("CustomExcel", Book_xltx) }
    /\ files[Path("CustomWord", Name("Other", ".dotx"))] = UserFile
    /\ BackupPath(Path("XLSTART", Name("Sheet", ".xltm")), now) \in DOMAIN backups
====
